---- MODULE Spec2Model ----
(***************************************************************************)
(* A model of containers/mapstructure: the weakly typed decoder of JSON,  *)
(* YAML and generic maps into Go structures (MapDecoder), and ToMap.       *)
(*                                                                         *)
(* Go strings are sequences of one-character strings, so that ToLower,     *)
(* Split, TrimSpace and the parsers are computed and not assumed.          *)
(* A Go value is a record that carries its dynamic type in field t and its *)
(* payload in a field named after its kind.  A floating point number is    *)
(* held as a whole number of tenths (f = 15 is 1.5).                       *)
(***************************************************************************)
EXTENDS Integers, Sequences, FiniteSets, TLC

VARIABLES
    dec,      \* the MapDecoder the caller holds (its four fields)
    out,      \* what the caller passes as output: "ptr", "nilptr", "value", "nil"
    store,    \* the caller's destination variable (the pointee when out = "ptr")
    last,     \* the record of the last call: operation, input, result
    calls,    \* the number of calls made
    tasks     \* the decodes that run at the same time, each with its destination

vars == <<dec, out, store, last, calls, tasks>>

\* The calls of one behaviour
MaxCalls == 2

(***************************************************************************)
(* Strings                                                                 *)
(***************************************************************************)
UpperLetters ==
    <<"A","B","C","D","E","F","G","H","I","J","K","L","M",
      "N","O","P","Q","R","S","T","U","V","W","X","Y","Z">>

LowerLetters ==
    <<"a","b","c","d","e","f","g","h","i","j","k","l","m",
      "n","o","p","q","r","s","t","u","v","w","x","y","z">>

Digits == <<"0","1","2","3","4","5","6","7","8","9">>

IsUpper(c) == \E i \in DOMAIN UpperLetters : UpperLetters[i] = c

LowerChar(c) ==
    IF IsUpper(c)
    THEN LowerLetters[CHOOSE i \in DOMAIN UpperLetters : UpperLetters[i] = c]
    ELSE c

\* strings.ToLower
ToLower(s) == [i \in DOMAIN s |-> LowerChar(s[i])]

IsSpace(c) == c \in {" ", "\t", "\n", "\r"}

RECURSIVE TrimLeft(_)
TrimLeft(s) ==
    IF s # <<>> /\ IsSpace(Head(s)) THEN TrimLeft(Tail(s)) ELSE s

RECURSIVE TrimRight(_)
TrimRight(s) ==
    IF s # <<>> /\ IsSpace(s[Len(s)])
    THEN TrimRight(SubSeq(s, 1, Len(s) - 1))
    ELSE s

\* strings.TrimSpace / bytes.TrimSpace
TrimSpace(s) == TrimRight(TrimLeft(s))

RECURSIVE SplitFrom(_, _, _, _)
SplitFrom(s, sep, i, cur) ==
    IF i > Len(s) THEN <<cur>>
    ELSE IF s[i] = sep THEN <<cur>> \o SplitFrom(s, sep, i + 1, <<>>)
    ELSE SplitFrom(s, sep, i + 1, Append(cur, s[i]))

\* strings.Split(s, sep) for a one-character separator
Split(s, sep) == SplitFrom(s, sep, 1, <<>>)

\* strings.Contains
Contains(s, sub) ==
    \E i \in 1..(Len(s) - Len(sub) + 1) : SubSeq(s, i, i + Len(sub) - 1) = sub

(***************************************************************************)
(* Types (reflect.Type)                                                    *)
(***************************************************************************)
\* int8..int64 and uint8..uint64 by width; int and uint are types of their own
IntT(bits) == [kind |-> "int", bits |-> bits, name |-> "sized"]
UintT(bits) == [kind |-> "uint", bits |-> bits, name |-> "sized"]
GoInt == [kind |-> "int", bits |-> 64, name |-> "int"]
GoUint == [kind |-> "uint", bits |-> 64, name |-> "uint"]
Float64T == [kind |-> "float", bits |-> 64]
StringT == [kind |-> "string"]
BoolT == [kind |-> "bool"]
IfaceT == [kind |-> "iface"]
NilT == [kind |-> "nil"]
SliceT(e) == [kind |-> "slice", elem |-> e]
PtrT(e) == [kind |-> "ptr", elem |-> e]
MapT(k, e) == [kind |-> "map", key |-> k, elem |-> e]
StructT(name, fields) == [kind |-> "struct", name |-> name, fields |-> fields]

\* reflect.StructField: the declared name, the tag of each namespace, the type
Field(name, tag, type) == [name |-> name, tag |-> tag, type |-> type]

\* StructField.IsExported
IsExported(field) == field.name # <<>> /\ IsUpper(field.name[1])

\* StructTag.Get
TagGet(field, ns) == IF ns \in DOMAIN field.tag THEN field.tag[ns] ELSE <<>>

GenericSliceT == SliceT(IfaceT)
GenericMapT == MapT(StringT, IfaceT)

(***************************************************************************)
(* Values (reflect.Value)                                                  *)
(***************************************************************************)
NilIface == [t |-> NilT]
StrV(s) == [t |-> StringT, s |-> s]
IntV(T, n) == [t |-> T, i |-> n]
FloatV(n) == [t |-> Float64T, f |-> n]
BoolV(b) == [t |-> BoolT, b |-> b]
NilOf(T) == [t |-> T, nil |-> TRUE]
SliceV(T, elems) == [t |-> T, e |-> elems]
PtrV(T, v) == [t |-> T, p |-> v]
MapV(T, m) == [t |-> T, m |-> m]
StructV(T, fs) == [t |-> T, f |-> fs]

IsNilV(v) == "nil" \in DOMAIN v \/ v.t = NilT

RECURSIVE Zero(_)
\* reflect.Zero
Zero(T) ==
    CASE T.kind \in {"int", "uint"} -> IntV(T, 0)
      [] T.kind = "float" -> [t |-> T, f |-> 0]
      [] T.kind = "string" -> StrV(<<>>)
      [] T.kind = "bool" -> BoolV(FALSE)
      [] T.kind \in {"slice", "ptr", "map"} -> NilOf(T)
      [] T.kind = "struct" ->
            StructV(T, [i \in DOMAIN T.fields |-> Zero(T.fields[i].type)])
      [] OTHER -> NilIface

\* Value.IsZero
IsZero(v) == v = Zero(v.t)

(***************************************************************************)
(* Errors.  path: the fields named by the "error setting field" wrappers,  *)
(* outermost first; key: the key an unknown-field error names.             *)
(***************************************************************************)
Err(kind, path, key) == [kind |-> kind, path |-> path, key |-> key]
ErrNone == Err("none", <<>>, <<>>)
ErrOf(kind) == Err(kind, <<>>, <<>>)

\* the result of a conversion: the error and the value the target holds after
R(err, val) == [err |-> err, val |-> val]


(***************************************************************************)
(* strconv                                                                 *)
(***************************************************************************)
IsDigit(c) == \E i \in DOMAIN Digits : Digits[i] = c

DigitVal(c) == (CHOOSE i \in DOMAIN Digits : Digits[i] = c) - 1

AllDigits(s) == s # <<>> /\ \A i \in DOMAIN s : IsDigit(s[i])

RECURSIVE DigitsVal(_, _)
DigitsVal(s, acc) ==
    IF s = <<>> THEN acc ELSE DigitsVal(Tail(s), acc * 10 + DigitVal(Head(s)))

RECURSIVE Pow2(_)
Pow2(n) == IF n = 0 THEN 1 ELSE 2 * Pow2(n - 1)

\* The numbers of the model stay far below 2^31: a width of 32 bits or more
\* holds every one of them.
FitsInt(n, bits) ==
    IF bits >= 32 THEN TRUE ELSE n >= -Pow2(bits - 1) /\ n <= Pow2(bits - 1) - 1

FitsUint(n, bits) ==
    IF bits >= 32 THEN n >= 0 ELSE n >= 0 /\ n <= Pow2(bits) - 1

RECURSIVE FormatNat(_)
FormatNat(n) ==
    IF n < 10 THEN <<Digits[n + 1]>>
    ELSE Append(FormatNat(n \div 10), Digits[(n % 10) + 1])

RECURSIVE StripZeros(_)
StripZeros(s) == IF Len(s) > 1 /\ Head(s) = "0" THEN StripZeros(Tail(s)) ELSE s

RECURSIVE DigitsLeq(_, _)
\* a <= b, for digit strings of one length
DigitsLeq(a, b) ==
    IF a = <<>> THEN TRUE
    ELSE IF Head(a) # Head(b) THEN DigitVal(Head(a)) < DigitVal(Head(b))
    ELSE DigitsLeq(Tail(a), Tail(b))

\* The number a digit string denotes is at most the one max denotes
AtMost(s, max) ==
    \/ Len(StripZeros(s)) < Len(max)
    \/ Len(StripZeros(s)) = Len(max) /\ DigitsLeq(StripZeros(s), max)

\* The largest magnitude of a width: 2^(bits-1) - 1, 2^(bits-1) for a negative
\* number, 2^bits - 1 for an unsigned one.  The range is decided on the
\* digits, so that it is decided for the widths whose bounds are beyond the
\* numbers of the model too.
MaxDigits(bits, kind) ==
    CASE bits = 64 /\ kind = "int" -> <<"9", "2", "2", "3", "3", "7", "2", "0", "3", "6", "8", "5", "4", "7", "7", "5", "8", "0", "7">>
      [] bits = 64 /\ kind = "neg" -> <<"9", "2", "2", "3", "3", "7", "2", "0", "3", "6", "8", "5", "4", "7", "7", "5", "8", "0", "8">>
      [] bits = 64 /\ kind = "uint" -> <<"1", "8", "4", "4", "6", "7", "4", "4", "0", "7", "3", "7", "0", "9", "5", "5", "1", "6", "1", "5">>
      [] bits = 32 /\ kind = "int" -> <<"2", "1", "4", "7", "4", "8", "3", "6", "4", "7">>
      [] bits = 32 /\ kind = "neg" -> <<"2", "1", "4", "7", "4", "8", "3", "6", "4", "8">>
      [] bits = 32 /\ kind = "uint" -> <<"4", "2", "9", "4", "9", "6", "7", "2", "9", "5">>
      [] kind = "int" -> FormatNat(Pow2(bits - 1) - 1)
      [] kind = "neg" -> FormatNat(Pow2(bits - 1))
      [] OTHER -> FormatNat(Pow2(bits) - 1)

\* strconv.ParseInt, were the value it returns beside a range error (the
\* nearest bound of the width) taken without a look at the error, for the
\* widths of 8 and 16 bits
ParseIntClamped(str, bits) ==
    LET signed == str # <<>> /\ Head(str) \in {"+", "-"}
        body == IF signed THEN Tail(str) ELSE str
        neg == signed /\ Head(str) = "-"
        max == MaxDigits(bits, IF neg THEN "neg" ELSE "int")
        mag == IF AtMost(body, max) THEN DigitsVal(body, 0) ELSE DigitsVal(max, 0)
    IN IF AllDigits(body) /\ (AtMost(body, max) \/ bits < 32)
       THEN [ok |-> TRUE, n |-> IF neg THEN -mag ELSE mag]
       ELSE [ok |-> FALSE, n |-> 0]

\* strconv.ParseInt(str, 10, bits): an optional sign, then digits; a range
\* error when the number does not fit the width
ParseInt(str, bits) ==
    LET signed == str # <<>> /\ Head(str) \in {"+", "-"}
        body == IF signed THEN Tail(str) ELSE str
        neg == signed /\ Head(str) = "-"
    IN IF AllDigits(body) /\ AtMost(body, MaxDigits(bits, IF neg THEN "neg" ELSE "int"))
       THEN [ok |-> TRUE, n |-> IF neg THEN -DigitsVal(body, 0) ELSE DigitsVal(body, 0)]
       ELSE [ok |-> FALSE, n |-> 0]

\* strconv.ParseUint(str, 10, bits): digits only, no sign
ParseUint(str, bits) ==
    IF AllDigits(str) /\ AtMost(str, MaxDigits(bits, "uint"))
    THEN [ok |-> TRUE, n |-> DigitsVal(str, 0)]
    ELSE [ok |-> FALSE, n |-> 0]

\* strconv.ParseFloat on the decimal strings of the model: an optional sign,
\* digits, and at most one digit after the point.  The result is in tenths.
ParseFloat(str) ==
    LET signed == str # <<>> /\ Head(str) \in {"+", "-"}
        body == IF signed THEN Tail(str) ELSE str
        parts == Split(body, ".")
        whole == parts[1]
        frac == IF Len(parts) = 2 THEN parts[2] ELSE <<"0">>
        ok == /\ Len(parts) \in {1, 2}
              /\ AllDigits(whole)
              /\ AllDigits(frac) /\ Len(frac) = 1
        mag == DigitsVal(whole, 0) * 10 + DigitsVal(frac, 0)
    IN IF ok
       THEN [ok |-> TRUE, f |-> IF signed /\ Head(str) = "-" THEN -mag ELSE mag]
       ELSE [ok |-> FALSE, f |-> 0]

\* strconv.ParseBool
ParseBool(str) ==
    IF str \in {<<"1">>, <<"t">>, <<"T">>, <<"T","R","U","E">>,
                <<"t","r","u","e">>, <<"T","r","u","e">>}
    THEN [ok |-> TRUE, b |-> TRUE]
    ELSE IF str \in {<<"0">>, <<"f">>, <<"F">>, <<"F","A","L","S","E">>,
                     <<"f","a","l","s","e">>, <<"F","a","l","s","e">>}
    THEN [ok |-> TRUE, b |-> FALSE]
    ELSE [ok |-> FALSE, b |-> FALSE]

\* strconv.FormatFloat(f, 'f', -1, 64) of a number held in tenths
FormatFloat(f) ==
    LET mag == IF f < 0 THEN -f ELSE f
        text == IF mag % 10 = 0
                THEN FormatNat(mag \div 10)
                ELSE FormatNat(mag \div 10) \o <<".", Digits[(mag % 10) + 1]>>
    IN IF f < 0 THEN <<"-">> \o text ELSE text

\* int64(f): truncation toward zero of a number held in tenths
Trunc(f) == IF f < 0 THEN -((-f) \div 10) ELSE f \div 10

\* Value.SetInt and Value.Convert keep the low bits of the target's width
WrapInt(n, bits) ==
    IF bits >= 32 THEN n
    ELSE LET m == n % Pow2(bits)
         IN IF m >= Pow2(bits - 1) THEN m - Pow2(bits) ELSE m

\* Value.SetUint keeps the low bits of the target's width
WrapUint(n, bits) == IF bits >= 32 /\ n >= 0 THEN n ELSE n % Pow2(bits)

\* string(rune(n)): the one-character string of code point n
RuneString(n) ==
    IF n \in 65..90 THEN <<UpperLetters[n - 64]>>
    ELSE IF n \in 97..122 THEN <<LowerLetters[n - 96]>>
    ELSE IF n \in 48..57 THEN <<Digits[n - 47]>>
    ELSE <<"U+other">>

(***************************************************************************)
(* MapDecoder                                                              *)
(***************************************************************************)
MapDecoder(weak, tagName, ignoreUnknown, zeroFields) ==
    [WeaklyTyped |-> weak, TagName |-> tagName,
     IgnoreUnknownKeys |-> ignoreUnknown, ZeroFields |-> zeroFields]

NewDecoder == MapDecoder(TRUE, "json", TRUE, TRUE)

(***************************************************************************)
(* reflect: assignability and conversion                                   *)
(***************************************************************************)
NumericKinds == {"int", "uint", "float"}

\* Type.AssignableTo: the same type, or any type to interface{}
AssignableTo(S, T) == S = T \/ T.kind = "iface"

\* Type.ConvertibleTo: between numeric types, and integer to string
ConvertibleTo(S, T) ==
    \/ S.kind \in NumericKinds /\ T.kind \in NumericKinds
    \/ S.kind \in {"int", "uint"} /\ T.kind = "string"

\* uint64(f) of a float64 that truncates to n.  The conversion of a negative
\* number is implementation-specific: the target keeps the low bits of the
\* two's complement (amd64) or holds 0 (a saturating conversion, arm64).
FloatToUint(n, bits) ==
    IF n >= 0 THEN {WrapUint(n, bits)} ELSE {WrapUint(n, bits), 0}

\* Value.Convert: the values the target can hold after
Convert(v, T) ==
    LET n == IF v.t.kind = "float" THEN Trunc(v.f) ELSE v.i
    IN CASE T.kind = "int" -> {IntV(T, WrapInt(n, T.bits))}
         [] T.kind = "uint" ->
               IF v.t.kind = "float"
               THEN {IntV(T, u) : u \in FloatToUint(n, T.bits)}
               ELSE {IntV(T, WrapUint(n, T.bits))}
         [] T.kind = "float" ->
               {[t |-> T, f |-> IF v.t.kind = "float" THEN v.f ELSE v.i * 10]}
         [] OTHER -> {StrV(RuneString(v.i))}

SrcElems(v) == IF IsNilV(v) THEN <<>> ELSE v.e

EmptyMap == [k \in {} |-> NilIface]

SrcMap(v) == IF IsNilV(v) THEN EmptyMap ELSE v.m

\* What a weak conversion gives: the values the target can hold after, none
\* where the code falls through to the later steps
NoConv == {}
Conv(v) == {v}

\* The first step that converts decides: its values, else those of the rest
OrElse(first, rest) == IF first # NoConv THEN first ELSE rest

\* time.Time: a struct with no exported field; the model keeps the instant
TimeT == StructT("time.Time", <<Field(<<"w", "a", "l", "l">>, [json |-> <<>>], GoInt)>>)
TimeV(inst) == [t |-> TimeT, f |-> <<inst>>]

DaysIn(y, m) ==
    IF m \in {4, 6, 9, 11} THEN 30
    ELSE IF m # 2 THEN 31
    ELSE IF y % 4 = 0 /\ (y % 100 # 0 \/ y % 400 = 0) THEN 29 ELSE 28

\* The number two digits of a string make, 0 where they are not digits
TwoDigits(str, i) ==
    IF i + 1 <= Len(str) /\ IsDigit(str[i]) /\ IsDigit(str[i + 1])
    THEN DigitVal(str[i]) * 10 + DigitVal(str[i + 1]) ELSE 0

\* time.Parse: the month, the day and the clock are in range
ValidTime(d, c) ==
    /\ d[2] \in 1..12 /\ d[3] \in 1..DaysIn(d[1], d[2])
    /\ c[1] < 24 /\ c[2] < 60 /\ c[3] < 60

\* time.Parse: the result for a string of a layout's shape
TimeOf(shaped, d, c) ==
    IF shaped /\ ValidTime(d, c)
    THEN [ok |-> TRUE, t |-> [date |-> d, clock |-> c]]
    ELSE [ok |-> FALSE, t |-> [date |-> <<1, 1, 1>>, clock |-> <<0, 0, 0>>]]

\* A string has the shape of a date (2006-01-02) in its first len characters,
\* len 10, or of a date and a time (15:04:05) joined by "T" or " ", len 19
Shaped(str, len) ==
    /\ len \in {10, 19}
    /\ \A i \in {1, 2, 3, 4, 6, 7, 9, 10} : IsDigit(str[i])
    /\ \A i \in {5, 8} : str[i] = "-"
    /\ len = 19 =>
          /\ str[11] \in {"T", " "}
          /\ \A i \in {12, 13, 15, 16, 18, 19} : IsDigit(str[i])
          /\ \A i \in {14, 17} : str[i] = ":"

\* time.Parse over the layouts setValue tries, for the strings of the model: a
\* date, a date and a time, and the first of these in UTC ("Z").  Every field
\* has its fixed width.
ParseTime(str) ==
    TimeOf(Shaped(str, IF Len(str) = 20 /\ str[20] = "Z" /\ str[11] = "T"
                       THEN 19 ELSE Len(str)),
           <<TwoDigits(str, 1) * 100 + TwoDigits(str, 3), TwoDigits(str, 6), TwoDigits(str, 9)>>,
           <<TwoDigits(str, 12), TwoDigits(str, 15), TwoDigits(str, 18)>>)

\* setValue, a string source into a bool, were strconv.ParseBool alone asked
weakBoolStrict(str) ==
    IF ParseBool(str).ok THEN Conv(BoolV(ParseBool(str).b)) ELSE NoConv

\* setValue, a string source into a bool
weakBool(str) ==
    IF ToLower(str) \in {<<"t","r","u","e">>, <<"1">>, <<"t">>,
                         <<"y","e","s">>, <<"y">>, <<"o","n">>}
    THEN Conv(BoolV(TRUE))
    ELSE IF ToLower(str) \in {<<"f","a","l","s","e">>, <<"0">>, <<"f">>,
                              <<"n","o">>, <<"n">>, <<"o","f","f">>}
    THEN Conv(BoolV(FALSE))
    ELSE IF ParseBool(str).ok THEN Conv(BoolV(ParseBool(str).b))
    ELSE NoConv

\* setValue, a string source into a slice of strings, were the parts kept
\* as they are split
weakStringsUntrimmed(T, str) ==
    LET parts == Split(str, ",")
    IN Conv(SliceV(T, [i \in DOMAIN parts |-> [t |-> T.elem, s |-> parts[i]]]))

\* setValue, a string source into a slice of strings
weakStrings(T, str) ==
    LET parts == Split(str, ",")
    IN Conv(SliceV(T, [i \in DOMAIN parts |->
                           [t |-> T.elem, s |-> TrimSpace(parts[i])]]))

\* setValue, what follows a parse: the value set when err == nil
parsedInt(T, p) == IF p.ok THEN Conv(IntV(T, p.n)) ELSE NoConv
parsedFloat(T, p) == IF p.ok THEN Conv([t |-> T, f |-> p.f]) ELSE NoConv
parsedTime(p) == IF p.ok THEN Conv(TimeV(p.t)) ELSE NoConv

\* setValue, the weak conversions of a string source (the switch on the
\* target's kind); ok = FALSE where the code falls out of the switch
weakFromString(T, str) ==
    CASE T.kind = "int" -> parsedInt(T, ParseInt(str, T.bits))
      [] T.kind = "uint" -> parsedInt(T, ParseUint(str, T.bits))
      [] T.kind = "float" -> parsedFloat(T, ParseFloat(str))
      [] T.kind = "bool" -> weakBool(str)
      [] T.kind = "slice" ->
            IF T.elem.kind = "string" THEN weakStrings(T, str) ELSE NoConv
      [] T = TimeT -> parsedTime(ParseTime(str))
      [] OTHER -> NoConv

\* setValue, the conversions of a float64 source
weakFromFloat(T, f) ==
    CASE T.kind = "int" -> Conv(IntV(T, WrapInt(Trunc(f), T.bits)))
      [] T.kind = "uint" -> {IntV(T, u) : u \in FloatToUint(Trunc(f), T.bits)}
      [] T.kind = "float" /\ T.bits = 32 -> Conv([t |-> T, f |-> f])
      [] T.kind = "string" -> Conv(StrV(FormatFloat(f)))
      [] OTHER -> NoConv

\* setValue, the block under d.WeaklyTyped
weakConvert(T, source) ==
    OrElse(IF source.t.kind = "string" THEN weakFromString(T, source.s) ELSE NoConv,
           IF source.t.kind = "float" /\ source.t.bits = 64
           THEN weakFromFloat(T, source.f)
           ELSE NoConv)

\* "error setting field %s: %w" and the map wrappers: the error, one level out
Wrap(name, err) == [err EXCEPT !.path = <<name>> \o err.path]

Put(fm, k, v) == [x \in (DOMAIN fm) \cup {k} |-> IF x = k THEN v ELSE fm[x]]

RECURSIVE buildFieldMap(_, _, _, _)
\* decodeMap, the loop that fills fieldMap: field i, then the fields after it
buildFieldMap(d, rt, i, fm) ==
    IF i > Len(rt.fields) THEN fm
    ELSE LET field == rt.fields[i]
             tag == TagGet(field, d.TagName)
             parts == Split(tag, ",")
             fm1 == IF tag # <<>> /\ parts[1] # <<>> /\ parts[1] # <<"-">>
                    THEN Put(fm, parts[1], i) ELSE fm
             fm2 == Put(fm1, ToLower(field.name), i)
         IN IF ~IsExported(field)
            THEN buildFieldMap(d, rt, i + 1, fm)
            ELSE buildFieldMap(d, rt, i + 1, fm2)

\* decodeMap: fieldMap, from names to field indices
fieldMap(d, rt) == buildFieldMap(d, rt, 1, [k \in {} |-> 0])

\* decodeMap, the lookup of one document key: the field index, 0 if not found
lookupField(fm, key) ==
    IF key \in DOMAIN fm THEN fm[key]
    ELSE IF ToLower(key) \in DOMAIN fm THEN fm[ToLower(key)]
    ELSE 0

\* setValue, were a nil source to leave the target as it is
setNilKept(T, cur) == {R(ErrNone, cur)}

\* setValue, a nil source: target.Set(reflect.Zero(target.Type()))
setNil(T, cur) == {R(ErrNone, Zero(T))}

\* setValue, a pointer target, were the new pointer assigned whatever the
\* conversion into its pointee returned
setPointerAlways(T, cur, r) == R(r.err, PtrV(T, r.val))

\* setValue, a pointer target: target.Set(ptr) once the conversion into the
\* pointee has returned no error
setPointer(T, cur, r) == IF r.err = ErrNone THEN R(ErrNone, PtrV(T, r.val)) ELSE R(r.err, cur)

\* setValue, slices, were the slice under construction stored when an element
\* fails
storeSlicePrefix(cur, r) == r

\* setValue, slices: target.Set(slice) after the loop, which an element's
\* error leaves before
storeSlice(cur, r) == IF r.err = ErrNone THEN r ELSE R(r.err, cur)

\* setValue, a map into a struct, were the nested decode run by a decoder of
\* the default configuration
nestedDecoderDefault(d) == NewDecoder

\* setValue, a map into a struct: the receiver of d.decodeMap(m, target.Addr().Interface())
nestedDecoder(d) == d

RECURSIVE setValue(_, _, _, _)
RECURSIVE setSlice(_, _, _, _, _)
RECURSIVE setMapEntries(_, _, _, _, _)
RECURSIVE decodeLoop(_, _, _, _, _, _, _)
RECURSIVE decodeStruct(_, _, _, _)

\* setValue, slice to slice: the elements from index i on, acc those converted
setSlice(d, T, elems, i, acc) ==
    IF i > Len(elems) THEN {R(ErrNone, SliceV(T, acc))}
    ELSE UNION { IF r.err = ErrNone
                 THEN setSlice(d, T, elems, i + 1, Append(acc, r.val))
                 ELSE {R(r.err, SliceV(T, acc))}
                 : r \in setValue(d, T.elem, Zero(T.elem), elems[i]) }

\* setValue, map to map: the entries left, in any order (MapRange), acc the new map
setMapEntries(d, T, m, left, acc) ==
    IF left = {} THEN {R(ErrNone, MapV(T, acc))}
    ELSE UNION { UNION { IF rk.err # ErrNone
                         THEN {R(Wrap(<<"map key">>, rk.err), NilIface)}
                         ELSE UNION { IF rv.err # ErrNone
                                      THEN {R(Wrap(<<"map value">>, rv.err), NilIface)}
                                      ELSE setMapEntries(d, T, m, left \ {k},
                                                         Put(acc, rk.val.s, rv.val))
                                      : rv \in setValue(d, T.elem, Zero(T.elem), m[k]) }
                         : rk \in setValue(d, T.key, Zero(T.key), StrV(k)) }
                 : k \in left }

\* decodeMap, were a key that no field has reported when the loop meets it
onUnknownKeyFails(d, key, rv, rest) ==
    IF ~d.IgnoreUnknownKeys THEN {R(Err("unknown_field", <<>>, key), rv)} ELSE rest

\* decodeMap: unknownKeys = append(unknownKeys, key); continue -- rest is what
\* the loop does with the keys left
onUnknownKey(d, key, rv, rest) == rest

\* decodeMap, the loop over the document: the keys left are taken in any order
\* (Go's map iteration order); unknown holds unknownKeys
decodeLoop(d, rt, rv, m, fm, left, unknown) ==
    IF left = {}
    THEN IF ~d.IgnoreUnknownKeys /\ Len(unknown) > 0
         THEN {R(Err("unknown_field", <<>>, unknown[1]), rv)}
         ELSE {R(ErrNone, rv)}
    ELSE UNION {
        LET fieldIndex == lookupField(fm, key)
        IN IF fieldIndex = 0
           THEN onUnknownKey(d, key, rv,
                    decodeLoop(d, rt, rv, m, fm, left \ {key}, Append(unknown, key)))
           ELSE IF ~IsExported(rt.fields[fieldIndex])
           THEN decodeLoop(d, rt, rv, m, fm, left \ {key}, unknown)
           ELSE UNION {
               IF r.err # ErrNone
               THEN {R(Wrap(rt.fields[fieldIndex].name, r.err),
                       [rv EXCEPT !.f[fieldIndex] = r.val])}
               ELSE decodeLoop(d, rt, [rv EXCEPT !.f[fieldIndex] = r.val],
                               m, fm, left \ {key}, unknown)
               : r \in setValue(d, rt.fields[fieldIndex].type,
                                rv.f[fieldIndex], m[key]) }
        : key \in left }

\* decodeMap on a pointer to a struct, were the destination cleared whatever
\* ZeroFields says
decodeStructCleared(d, m, rt, rv) ==
    decodeLoop(d, rt, Zero(rt), m, fieldMap(d, rt), DOMAIN m, <<>>)

\* decodeMap on a pointer to a struct: fieldMap, ZeroFields, the loop
decodeStruct(d, m, rt, rv) ==
    decodeLoop(d, rt, IF d.ZeroFields THEN Zero(rt) ELSE rv,
               m, fieldMap(d, rt), DOMAIN m, <<>>)

\* setValue(target, source): T is the target's type and cur what it holds.
\* The results are a set: the order of a nested map's keys is not fixed.
setValue(d, T, cur, source) ==
    IF source = NilIface THEN setNil(T, cur)
    ELSE IF AssignableTo(source.t, T) THEN {R(ErrNone, source)}
    ELSE OrElse(
        {R(ErrNone, v) : v \in IF d.WeaklyTyped THEN weakConvert(T, source) ELSE NoConv},
    IF T.kind = "slice" /\ source.t.kind = "slice"
    THEN { storeSlice(cur, r) : r \in setSlice(d, T, SrcElems(source), 1, <<>>) }
    ELSE IF T.kind = "map" /\ source.t.kind = "map"
    THEN { IF r.err = ErrNone THEN r ELSE R(r.err, cur)
           : r \in setMapEntries(d, T, SrcMap(source), DOMAIN SrcMap(source), EmptyMap) }
    ELSE IF T.kind = "struct" /\ source.t = GenericMapT
    THEN decodeStruct(nestedDecoder(d), SrcMap(source), T, cur)
    ELSE IF T.kind = "ptr"
    THEN IF source.t.kind = "ptr" /\ IsNilV(source)
         THEN {R(ErrNone, Zero(T))}
         ELSE { setPointer(T, cur, r)
                : r \in setValue(d, T.elem, Zero(T.elem),
                                 IF source.t.kind = "ptr" THEN source.p ELSE source) }
    ELSE IF ConvertibleTo(source.t, T) THEN {R(ErrNone, v) : v \in Convert(source, T)}
    ELSE {R(ErrOf("convert"), cur)})

\* decodeMap, were any entry of the document taken for an output that is no
\* struct, however many entries there are
decodeMapAnyEntry(d, m, o, cur) ==
    IF o # "ptr" THEN {R(ErrOf("invalid_output"), cur)}
    ELSE IF cur.t.kind # "struct"
    THEN IF DOMAIN m # {}
         THEN UNION {setValue(d, cur.t, cur, m[k]) : k \in DOMAIN m}
         ELSE {R(ErrOf("not_struct"), cur)}
    ELSE decodeStruct(d, m, cur.t, cur)

\* decodeMap(m, output): o is the kind of output passed, cur the destination
decodeMap(d, m, o, cur) ==
    IF o # "ptr" THEN {R(ErrOf("invalid_output"), cur)}
    ELSE IF cur.t.kind # "struct"
    THEN IF Cardinality(DOMAIN m) = 1
         THEN setValue(d, cur.t, cur, m[CHOOSE k \in DOMAIN m : TRUE])
         ELSE {R(ErrOf("not_struct"), cur)}
    ELSE decodeStruct(d, m, cur.t, cur)

(***************************************************************************)
(* Documents.  A text input is its bytes together with what encoding/json  *)
(* and yaml.v3 parse it to: a node, Invalid (a syntax error) or NoDoc (an  *)
(* empty YAML stream).  An object node keeps its pairs in document order.  *)
(***************************************************************************)
Invalid == [n |-> "invalid"]
NoDoc == [n |-> "none"]
JNull == [n |-> "null"]
JBool(b) == [n |-> "bool", b |-> b]
JNum(f) == [n |-> "num", f |-> f]
JStr(s) == [n |-> "str", s |-> s]
JSeq(e) == [n |-> "seq", e |-> e]
JObj(kv) == [n |-> "obj", kv |-> kv]

Text(bytes, json, yaml) == [bytes |-> bytes, json |-> json, yaml |-> yaml]

\* The pair that gives key k its value: the last one of that key
lastPair(kv, k) ==
    CHOOSE i \in DOMAIN kv :
        kv[i][1] = k /\ \A j \in DOMAIN kv : kv[j][1] = k => j <= i

RECURSIVE generic(_, _)
\* Unmarshal into interface{}: JSON numbers are float64, YAML whole numbers int
generic(fmt, node) ==
    CASE node.n = "bool" -> BoolV(node.b)
      [] node.n = "num" ->
            IF fmt = "yaml" /\ node.f % 10 = 0
            THEN IntV(GoInt, node.f \div 10) ELSE FloatV(node.f)
      [] node.n = "str" -> StrV(node.s)
      [] node.n = "seq" ->
            SliceV(GenericSliceT, [i \in DOMAIN node.e |-> generic(fmt, node.e[i])])
      [] node.n = "obj" ->
            MapV(GenericMapT,
                 [k \in {node.kv[i][1] : i \in DOMAIN node.kv} |->
                     generic(fmt, node.kv[lastPair(node.kv, k)][2])])
      [] OTHER -> NilIface

\* json.Unmarshal(v, &m) and yaml.Unmarshal(v, &m) with m a map[string]interface{}
unmarshalMap(fmt, text) ==
    LET node == IF fmt = "json" THEN text.json ELSE text.yaml
    IN CASE node.n = "obj" -> [ok |-> TRUE, m |-> generic(fmt, node).m]
         [] node.n \in {"null", "none"} -> [ok |-> TRUE, m |-> EmptyMap]
         [] OTHER -> [ok |-> FALSE, m |-> EmptyMap]

\* The name a field goes by in a native decode: the tag's first segment, else
\* the declared name (encoding/json) or its lower-cased form (yaml.v3)
nativeName(fmt, field) ==
    LET tag == TagGet(field, fmt)
    IN IF tag # <<>> /\ Split(tag, ",")[1] # <<>> THEN Split(tag, ",")[1]
       ELSE IF fmt = "json" THEN field.name ELSE ToLower(field.name)

nativeSkips(fmt, field) == ~IsExported(field) \/ TagGet(field, fmt) = <<"-">>

\* The field a key of a native decode goes to, 0 if none: the exact name; for
\* encoding/json, failing that, the name under case folding
nativeField(fmt, rt, key) ==
    LET exact == {i \in DOMAIN rt.fields :
                    ~nativeSkips(fmt, rt.fields[i]) /\ nativeName(fmt, rt.fields[i]) = key}
        fold == {i \in DOMAIN rt.fields :
                    /\ ~nativeSkips(fmt, rt.fields[i])
                    /\ ToLower(nativeName(fmt, rt.fields[i])) = ToLower(key)}
        Min(S) == CHOOSE i \in S : \A j \in S : i <= j
    IN IF exact # {} THEN Min(exact)
       ELSE IF fmt = "json" /\ fold # {} THEN Min(fold)
       ELSE 0

YamlTrue == {<<"y">>, <<"Y">>, <<"y","e","s">>, <<"Y","e","s">>, <<"Y","E","S">>,
             <<"o","n">>, <<"O","n">>, <<"O","N">>}
YamlFalse == {<<"n">>, <<"N">>, <<"n","o">>, <<"N","o">>, <<"N","O">>,
              <<"o","f","f">>, <<"O","f","f">>, <<"O","F","F">>}

N(ok, val) == [ok |-> ok, val |-> val]

\* A scalar node into a scalar target, as the library's typed decode does it
nativeScalar(fmt, T, cur, node) ==
    CASE T.kind = "int" ->
            IF node.n = "num" /\ node.f % 10 = 0 /\ FitsInt(node.f \div 10, T.bits)
            THEN N(TRUE, IntV(T, node.f \div 10)) ELSE N(FALSE, cur)
      [] T.kind = "uint" ->
            IF node.n = "num" /\ node.f % 10 = 0 /\ FitsUint(node.f \div 10, T.bits)
            THEN N(TRUE, IntV(T, node.f \div 10)) ELSE N(FALSE, cur)
      [] T.kind = "float" ->
            IF node.n = "num" THEN N(TRUE, [t |-> T, f |-> node.f]) ELSE N(FALSE, cur)
      [] T.kind = "bool" ->
            IF node.n = "bool" THEN N(TRUE, BoolV(node.b))
            ELSE IF fmt = "yaml" /\ node.n = "str" /\ node.s \in YamlTrue
            THEN N(TRUE, BoolV(TRUE))
            ELSE IF fmt = "yaml" /\ node.n = "str" /\ node.s \in YamlFalse
            THEN N(TRUE, BoolV(FALSE))
            ELSE N(FALSE, cur)
      [] T.kind = "string" ->
            IF node.n = "str" THEN N(TRUE, StrV(node.s))
            ELSE IF fmt = "yaml" /\ node.n = "num" THEN N(TRUE, StrV(FormatFloat(node.f)))
            ELSE IF fmt = "yaml" /\ node.n = "bool"
            THEN N(TRUE, StrV(IF node.b THEN <<"t","r","u","e">>
                                        ELSE <<"f","a","l","s","e">>))
            ELSE N(FALSE, cur)
      [] OTHER -> N(FALSE, cur)

RECURSIVE nativeInto(_, _, _, _)
RECURSIVE nativeObject(_, _, _, _, _, _)
RECURSIVE nativeSeq(_, _, _, _, _, _)

\* The pairs of an object from index i on, into struct rv; a pair that fails
\* is reported at the end and the pairs after it are still decoded
nativeObject(fmt, rt, rv, kv, i, ok) ==
    IF i > Len(kv) THEN N(ok, rv)
    ELSE LET idx == nativeField(fmt, rt, kv[i][1])
             r == nativeInto(fmt, rt.fields[idx].type, rv.f[idx], kv[i][2])
         IN IF idx = 0 THEN nativeObject(fmt, rt, rv, kv, i + 1, ok)
            ELSE nativeObject(fmt, rt, [rv EXCEPT !.f[idx] = r.val], kv, i + 1, ok /\ r.ok)

\* The elements of an array: encoding/json leaves a failed element zero,
\* yaml.v3 drops it
nativeSeq(fmt, T, elems, i, acc, ok) ==
    IF i > Len(elems) THEN N(ok, SliceV(T, acc))
    ELSE LET r == nativeInto(fmt, T.elem, Zero(T.elem), elems[i])
         IN nativeSeq(fmt, T, elems, i + 1,
                      IF r.ok \/ fmt = "json" THEN Append(acc, r.val) ELSE acc,
                      ok /\ r.ok)

\* A string into a time.Time: both libraries hand the text to the type's own
\* UnmarshalJSON or UnmarshalText, which reads RFC 3339 (of the strings of the
\* model, those that end in "Z")
nativeTime(cur, node, p) ==
    IF node.n = "str" /\ Len(node.s) = 20 /\ p.ok THEN N(TRUE, TimeV(p.t)) ELSE N(FALSE, cur)

\* The typed decode of encoding/json (fmt = "json") and yaml.v3 (fmt = "yaml")
\* of one node into a target of type T holding cur: whether it succeeded and
\* what the target holds after.  Fields no key names are left as they were.
nativeInto(fmt, T, cur, node) ==
    IF node.n = "null"
    THEN N(TRUE, IF T.kind \in {"ptr", "slice", "map", "iface"} THEN Zero(T) ELSE cur)
    ELSE CASE T.kind = "iface" -> N(TRUE, generic(fmt, node))
           [] T.kind = "ptr" ->
                 LET r == nativeInto(fmt, T.elem,
                                     IF IsNilV(cur) THEN Zero(T.elem) ELSE cur.p, node)
                 IN IF r.ok \/ ~IsNilV(cur) \/ fmt = "json"
                    THEN N(r.ok, PtrV(T, r.val)) ELSE N(FALSE, cur)
           [] T = TimeT ->
                 nativeTime(cur, node, ParseTime(IF node.n = "str" THEN node.s ELSE <<>>))
           [] T.kind = "struct" /\ T # TimeT ->
                 IF node.n = "obj" THEN nativeObject(fmt, T, cur, node.kv, 1, TRUE)
                 ELSE N(FALSE, cur)
           [] T.kind = "slice" ->
                 IF node.n = "seq" THEN nativeSeq(fmt, T, node.e, 1, <<>>, TRUE)
                 ELSE N(FALSE, cur)
           [] T.kind = "map" ->
                 IF node.n = "obj"
                 THEN LET keys == {node.kv[i][1] : i \in DOMAIN node.kv}
                          r == [k \in keys |->
                                  nativeInto(fmt, T.elem, Zero(T.elem),
                                             node.kv[lastPair(node.kv, k)][2])]
                      IN N(\A k \in keys : r[k].ok, MapV(T, [k \in keys |-> r[k].val]))
                 ELSE N(FALSE, cur)
           [] OTHER -> nativeScalar(fmt, T, cur, node)

(***************************************************************************)
(* The public operations.  Each yields the set of outcomes a call can      *)
(* have: the error returned, what the destination holds after, and the     *)
(* steps attempted, in order.                                              *)
(***************************************************************************)
O(err, st, trace) == [err |-> err, store |-> st, trace |-> trace]

Panic == ErrOf("panic")

RECURSIVE nativeSets(_, _, _, _)
\* Whether the typed decode of yaml.v3 reaches a reflect Set on its target
nativeSets(fmt, T, cur, node) ==
    CASE node.n = "null" -> FALSE
      [] T.kind = "struct" ->
            /\ node.n = "obj"
            /\ \E i \in DOMAIN node.kv :
                  LET idx == nativeField(fmt, T, node.kv[i][1])
                  IN idx # 0 /\ nativeSets(fmt, T.fields[idx].type, cur.f[idx], node.kv[i][2])
      [] T.kind = "slice" -> node.n = "seq"
      [] T.kind = "map" -> node.n = "obj"
      [] T.kind \in {"ptr", "iface"} -> TRUE
      [] OTHER -> nativeScalar(fmt, T, cur, node).ok

U(ok, val, panic) == [ok |-> ok, val |-> val, panic |-> panic]

\* json.Unmarshal(v, output) and yaml.Unmarshal(data, output), output the
\* caller's.  encoding/json: a syntax error first, then an error for an output
\* that is no non-nil pointer, then the decode.  yaml.v3 does not check its
\* output: reflect panics on a nil output and a nil pointer, and on a value
\* that is not addressable once the decode sets it.
unmarshal(fmt, text, o, cur) ==
    LET node == IF fmt = "json" THEN text.json ELSE text.yaml
    IN IF node = Invalid THEN U(FALSE, cur, FALSE)
       ELSE IF node = NoDoc THEN U(TRUE, cur, FALSE)
       ELSE IF o = "ptr"
       THEN U(nativeInto(fmt, cur.t, cur, node).ok,
              nativeInto(fmt, cur.t, cur, node).val, FALSE)
       ELSE IF fmt = "json" THEN U(FALSE, cur, FALSE)
       ELSE IF node.n = "null" THEN U(TRUE, cur, FALSE)
       ELSE IF o \in {"nil", "nilptr"} THEN U(FALSE, cur, TRUE)
       ELSE IF nativeSets(fmt, cur.t, cur, node) THEN U(FALSE, cur, TRUE)
       ELSE U(nativeInto(fmt, cur.t, cur, node).ok, cur, FALSE)

\* ToMap keyed by the declared field names, whatever the tags say
ToMapByFieldName(input) ==
    LET rv == IF input.t.kind = "ptr" /\ ~IsNilV(input) THEN input.p ELSE input
        rt == rv.t
        kept == {i \in DOMAIN rt.fields : IsExported(rt.fields[i])}
    IN IF rt.kind # "struct" \/ IsNilV(rv)
       THEN [err |-> ErrOf("not_struct_input"), m |-> EmptyMap]
       ELSE [err |-> ErrNone,
             m |-> [k \in {rt.fields[i].name : i \in kept} |->
                      rv.f[CHOOSE i \in kept : rt.fields[i].name = k]]]

\* ToMap(input): the error and the map
ToMap(input) ==
    LET rv == IF input.t.kind = "ptr" /\ ~IsNilV(input) THEN input.p ELSE input
        rt == rv.t
        tagOf(i) == TagGet(rt.fields[i], NewDecoder.TagName)
        skipped(i) ==
            \/ ~IsExported(rt.fields[i])
            \/ tagOf(i) # <<>> /\ Split(tagOf(i), ",")[1] = <<"-">>
            \/ IsZero(rv.f[i]) /\ Contains(tagOf(i), <<"o","m","i","t","e","m","p","t","y">>)
        nameOf(i) ==
            IF tagOf(i) # <<>> /\ Split(tagOf(i), ",")[1] # <<>>
            THEN Split(tagOf(i), ",")[1] ELSE rt.fields[i].name
        kept == {i \in DOMAIN rt.fields : ~skipped(i)}
    IN IF rt.kind # "struct" \/ IsNilV(rv)
       THEN [err |-> ErrOf("not_struct_input"), m |-> EmptyMap]
       ELSE [err |-> ErrNone,
             m |-> [k \in {nameOf(i) : i \in kept} |->
                      rv.f[CHOOSE i \in kept :
                              nameOf(i) = k /\ \A j \in kept : nameOf(j) = k => j <= i]]]

\* decodeValue(source, target).  reflect panics when it is asked to set or to
\* take the address of a value that is not addressable, or the type of the
\* zero Value: that is every output but a non-nil pointer.
decodeValue(d, source, o, cur) ==
    IF source = NilIface \/ (source.t.kind = "ptr" /\ IsNilV(source)) \/ o \in {"nil", "nilptr"}
    THEN {R(Panic, cur)}
    ELSE LET src == IF source.t.kind = "ptr" THEN source.p ELSE source
         IN IF src.t.kind = "struct"
            THEN IF o = "ptr"
                 THEN decodeMap(d, ToMap(src).m, "ptr", cur)
                 ELSE {R(Panic, cur)}
            ELSE IF o = "ptr" THEN setValue(d, cur.t, cur, src)
            ELSE { IF r.err = ErrNone THEN R(Panic, cur) ELSE R(r.err, cur)
                   : r \in setValue(d, cur.t, cur, src) }

\* The forms of input
Bytes(text) == [form |-> "bytes", text |-> text]
String(text) == [form |-> "string", text |-> text]
Map(m) == [form |-> "map", m |-> m]
Other(v) == [form |-> "other", v |-> v]

\* One step of a call, for the record: its name and the error it returned
S(step, err) == [step |-> step, err |-> err]

LibErr == ErrOf("library")

\* Decode, were the YAML parse tried whatever the input starts with
mightBeYAMLAlways(trimmed) == TRUE

\* Decode: len(trimmed) > 0 && trimmed[0] != '{' && trimmed[0] != '['
mightBeYAML(trimmed) == Len(trimmed) > 0 /\ trimmed[1] # "{" /\ trimmed[1] # "["

\* Decode, the case []byte
decodeBytes(d, text, o, cur) ==
    LET trimmed == TrimSpace(text.bytes)
        tryYAML == mightBeYAML(trimmed)
        y == unmarshalMap("yaml", text)
        pre == IF tryYAML THEN <<S("yaml.map", LibErr)>> ELSE <<>>
        nat == unmarshal("json", text, o, cur)
        g == unmarshalMap("json", text)
    IN IF tryYAML /\ y.ok
       THEN { O(r.err, r.val, <<S("yaml.map", ErrNone), S("decodeMap", r.err)>>)
              : r \in decodeMap(d, y.m, o, cur) }
       ELSE IF nat.ok THEN {O(ErrNone, nat.val, pre \o <<S("json.native", ErrNone)>>)}
       ELSE IF ~g.ok
       THEN {O(ErrOf("parse_json"), nat.val,
               pre \o <<S("json.native", LibErr), S("json.map", LibErr)>>)}
       ELSE { O(r.err, r.val,
                pre \o <<S("json.native", LibErr), S("json.map", ErrNone),
                         S("decodeMap", r.err)>>)
              : r \in decodeMap(d, g.m, o, nat.val) }

\* MapDecoder.Decode(input, output)
Decode(d, input, o, cur) ==
    CASE input.form \in {"bytes", "string"} -> decodeBytes(d, input.text, o, cur)
      [] input.form = "map" ->
            { O(r.err, r.val, <<S("decodeMap", r.err)>>)
              : r \in decodeMap(d, input.m, o, cur) }
      [] OTHER ->
            { O(r.err, r.val, <<S("decodeValue", r.err)>>)
              : r \in decodeValue(d, input.v, o, cur) }

DecodeJSON(jsonData, o, cur) == Decode(NewDecoder, jsonData, o, cur)

DecodeMap(m, o, cur) == Decode(NewDecoder, Map(m), o, cur)

\* DecodeYAML(yamlData, output)
DecodeYAML(yamlData, o, cur) ==
    LET decoder == [NewDecoder EXCEPT !.TagName = "yaml"]
        nat == unmarshal("yaml", yamlData.text, o, cur)
        g == unmarshalMap("yaml", yamlData.text)
    IN IF yamlData.form \notin {"bytes", "string"} THEN {O(ErrOf("bad_type"), cur, <<>>)}
       ELSE IF nat.panic THEN {O(Panic, cur, <<S("yaml.native", Panic)>>)}
       ELSE IF nat.ok THEN {O(ErrNone, nat.val, <<S("yaml.native", ErrNone)>>)}
       ELSE IF ~g.ok
       THEN {O(ErrOf("parse_yaml"), nat.val,
               <<S("yaml.native", LibErr), S("yaml.map", LibErr)>>)}
       ELSE { O(r.err, r.val,
                <<S("yaml.native", LibErr), S("yaml.map", ErrNone), S("decodeMap", r.err)>>)
              : r \in decodeMap(decoder, g.m, o, nat.val) }

\* What AutoDecode takes the trimmed text for, were the text handed to the
\* YAML decoder whenever it does not open as JSON does
detectFormatUnchecked(bytes) ==
    IF bytes # <<>> /\ bytes[1] \in {"{", "["} THEN "json" ELSE "yaml"

\* What AutoDecode takes the trimmed text for: nothing, JSON by its first
\* character, else YAML
detectFormat(bytes) ==
    IF Len(bytes) = 0 THEN "empty"
    ELSE IF bytes[1] = "{" \/ bytes[1] = "[" THEN "json"
    ELSE "yaml"

\* The error of the later attempt, were it the one preferred
bothFailedLatest(err, yamlErr) == yamlErr

\* The error AutoDecode returns when the JSON and the YAML attempt both failed
bothFailed(err, yamlErr) == err

\* AutoDecode(data, output).  The steps are the decoders called, each with
\* the error it returned; the text handed on is the trimmed one.
AutoDecode(data, o, cur) ==
    IF data.form \notin {"bytes", "string"} THEN {O(ErrOf("bad_type"), cur, <<>>)}
    ELSE LET bytes == TrimSpace(data.text.bytes)
             trimmed == Bytes([data.text EXCEPT !.bytes = bytes])
         IN CASE detectFormat(bytes) = "empty" -> {O(ErrOf("empty"), cur, <<>>)}
              [] detectFormat(bytes) = "json" ->
                    UNION {
                      IF j.err = ErrNone \/ j.err = Panic
                      THEN {O(j.err, j.store, <<S("DecodeJSON", j.err)>>)}
                      ELSE { O(IF y.err = ErrNone \/ y.err = Panic
                               THEN y.err ELSE bothFailed(j.err, y.err),
                               y.store,
                               <<S("DecodeJSON", j.err), S("DecodeYAML", y.err)>>)
                             : y \in DecodeYAML(trimmed, o, j.store) }
                      : j \in DecodeJSON(trimmed, o, cur) }
              [] OTHER ->
                    { O(y.err, y.store, <<S("DecodeYAML", y.err)>>)
                      : y \in DecodeYAML(trimmed, o, cur) }

(***************************************************************************)
(* The destinations, decoders and inputs of the model                      *)
(***************************************************************************)
BothTags(tag) == [json |-> tag, yaml |-> tag]

\* struct { ID int `json:"id" yaml:"id"`; Name string `json:"name" yaml:"name"` }
UserT ==
    StructT("User", <<Field(<<"I", "D">>, BothTags(<<"i", "d">>), GoInt),
                      Field(<<"N", "a", "m", "e">>, BothTags(<<"n", "a", "m", "e">>), StringT)>>)

\* struct { ID int `json:"id"`; Token string `json:"-"` }
SecretT ==
    StructT("Secret", <<Field(<<"I", "D">>, BothTags(<<"i", "d">>), GoInt),
                        Field(<<"T", "o", "k", "e", "n">>, BothTags(<<"-">>), StringT)>>)

\* struct { Alias string `json:"name"`; Name string `json:"title"` }
ShadowT ==
    StructT("Shadow", <<Field(<<"A", "l", "i", "a", "s">>, BothTags(<<"n", "a", "m", "e">>), StringT),
                        Field(<<"N", "a", "m", "e">>, BothTags(<<"t", "i", "t", "l", "e">>), StringT)>>)

\* struct { Country string `json:"country"`; Sessions int `json:"sessions"` }
InnerT ==
    StructT("Inner", <<Field(<<"C", "o", "u", "n", "t", "r", "y">>, BothTags(<<"c", "o", "u", "n", "t", "r", "y">>), StringT),
                       Field(<<"S", "e", "s", "s", "i", "o", "n", "s">>, BothTags(<<"s", "e", "s", "s", "i", "o", "n", "s">>), GoInt)>>)

\* struct { Count int8; Tags []int; Attrs map[string]int; Ptr *int; Meta Inner },
\* each field tagged with its lower-cased name
NestedT ==
    StructT("Nested", <<Field(<<"C", "o", "u", "n", "t">>, BothTags(<<"c", "o", "u", "n", "t">>), IntT(8)),
                        Field(<<"T", "a", "g", "s">>, BothTags(<<"t", "a", "g", "s">>), SliceT(GoInt)),
                        Field(<<"A", "t", "t", "r", "s">>, BothTags(<<"a", "t", "t", "r", "s">>), MapT(StringT, GoInt)),
                        Field(<<"P", "t", "r">>, BothTags(<<"p", "t", "r">>), PtrT(GoInt)),
                        Field(<<"M", "e", "t", "a">>, BothTags(<<"m", "e", "t", "a">>), InnerT)>>)

StringsT == SliceT(StringT)

UserV(id, name) == StructV(UserT, <<IntV(GoInt, id), StrV(name)>>)
InnerV(country, sessions) == StructV(InnerT, <<StrV(country), IntV(GoInt, sessions)>>)

\* The destination variables a caller may hold when it calls
Stores ==
    { Zero(UserT), UserV(9, <<"o", "l", "d">>),
      Zero(SecretT), StructV(SecretT, <<IntV(GoInt, 9), StrV(<<"o", "l", "d">>)>>),
      Zero(ShadowT), StructV(ShadowT, <<StrV(<<"o", "l", "d">>), StrV(<<"o", "l", "d">>)>>),
      Zero(NestedT),
      StructV(NestedT, <<IntV(IntT(8), 9),
                         SliceV(SliceT(GoInt), <<IntV(GoInt, 9)>>),
                         MapV(MapT(StringT, GoInt), [k \in {<<"o", "l", "d">>} |-> IntV(GoInt, 9)]),
                         PtrV(PtrT(GoInt), IntV(GoInt, 9)),
                         InnerV(<<"o", "l", "d">>, 9)>>),
      Zero(StringsT), Zero(StringT) }

\* The kinds of output: a pointer to the variable, a nil pointer of its type,
\* the variable passed by value, and nil
Outputs == {"ptr", "nilptr", "value", "nil"}

\* NewDecoder, the decoders that differ from it in one field, and the two
\* decoders the tests build
Decoders ==
    { NewDecoder,
      MapDecoder(FALSE, "json", TRUE, TRUE),
      MapDecoder(TRUE, "yaml", TRUE, TRUE),
      MapDecoder(TRUE, "json", FALSE, TRUE),
      MapDecoder(TRUE, "json", TRUE, FALSE),
      MapDecoder(FALSE, "json", FALSE, TRUE),
      MapDecoder(TRUE, "json", FALSE, FALSE) }

T_Id1 == Text(<<"{", "\"", "i", "d", "\"", ":", "1", "}">>, JObj(<< <<<<"i", "d">>, JNum(10)>> >>), JObj(<< <<<<"i", "d">>, JNum(10)>> >>))
T_IdExtra ==
    Text(<<"{", "\"", "i", "d", "\"", ":", "1", ",", "\"", "e", "x", "t", "r", "a", "\"", ":", "2", "}">>,
         JObj(<< <<<<"i", "d">>, JNum(10)>>, <<<<"e", "x", "t", "r", "a">>, JNum(20)>> >>),
         JObj(<< <<<<"i", "d">>, JNum(10)>>, <<<<"e", "x", "t", "r", "a">>, JNum(20)>> >>))
T_IdStr7 == Text(<<"{", "\"", "i", "d", "\"", ":", "\"", "7", "\"", "}">>, JObj(<< <<<<"i", "d">>, JStr(<<"7">>)>> >>), JObj(<< <<<<"i", "d">>, JStr(<<"7">>)>> >>))
T_IdStrX == Text(<<"{", "\"", "i", "d", "\"", ":", "\"", "x", "\"", "}">>, JObj(<< <<<<"i", "d">>, JStr(<<"x">>)>> >>), JObj(<< <<<<"i", "d">>, JStr(<<"x">>)>> >>))
T_IdDup ==
    Text(<<"{", "\"", "i", "d", "\"", ":", "1", ",", "\"", "I", "D", "\"", ":", "2", "}">>,
         JObj(<< <<<<"i", "d">>, JNum(10)>>, <<<<"I", "D">>, JNum(20)>> >>),
         JObj(<< <<<<"i", "d">>, JNum(10)>>, <<<<"I", "D">>, JNum(20)>> >>))
T_Spaced == Text(<<"\n", " ", "{", "\"", "i", "d", "\"", ":", "4", "}", " ">>, JObj(<< <<<<"i", "d">>, JNum(40)>> >>), JObj(<< <<<<"i", "d">>, JNum(40)>> >>))
T_Yaml == Text(<<"i", "d", ":", " ", "2">>, Invalid, JObj(<< <<<<"i", "d">>, JNum(20)>> >>))
T_YamlStr == Text(<<"i", "d", ":", " ", "\"", "x", "\"">>, Invalid, JObj(<< <<<<"i", "d">>, JStr(<<"x">>)>> >>))
T_YamlExtra ==
    Text(<<"i", "d", ":", " ", "2", "\n", "e", "x", "t", "r", "a", ":", " ", "3">>, Invalid, JObj(<< <<<<"i", "d">>, JNum(20)>>, <<<<"e", "x", "t", "r", "a">>, JNum(30)>> >>))
T_Flow == Text(<<"{", "i", "d", ":", " ", "3", "}">>, Invalid, JObj(<< <<<<"i", "d">>, JNum(30)>> >>))
T_BadBrace == Text(<<"{", "]">>, Invalid, Invalid)
T_BadPlain == Text(<<"a", ":", " ", "[">>, Invalid, Invalid)
T_Empty == Text(<<>>, Invalid, NoDoc)
T_Blank == Text(<<" ", "\n">>, Invalid, NoDoc)
T_Quoted == Text(<<"\"", "s", "\"">>, JStr(<<"s">>), JStr(<<"s">>))
T_Array == Text(<<"[", "1", "]">>, JSeq(<<JNum(10)>>), JSeq(<<JNum(10)>>))
T_Token == Text(<<"{", "\"", "t", "o", "k", "e", "n", "\"", ":", "\"", "s", "\"", "}">>, JObj(<< <<<<"t", "o", "k", "e", "n">>, JStr(<<"s">>)>> >>),
                JObj(<< <<<<"t", "o", "k", "e", "n">>, JStr(<<"s">>)>> >>))
T_Name == Text(<<"{", "\"", "n", "a", "m", "e", "\"", ":", "\"", "n", "\"", "}">>, JObj(<< <<<<"n", "a", "m", "e">>, JStr(<<"n">>)>> >>),
               JObj(<< <<<<"n", "a", "m", "e">>, JStr(<<"n">>)>> >>))
T_Meta ==
    Text(<<"{", "\"", "m", "e", "t", "a", "\"", ":", "{", "\"", "c", "o", "u", "n", "t", "r", "y", "\"", ":", "\"", "U", "S", "\"", "}", "}">>,
         JObj(<< <<<<"m", "e", "t", "a">>, JObj(<< <<<<"c", "o", "u", "n", "t", "r", "y">>, JStr(<<"U", "S">>)>> >>)>> >>),
         JObj(<< <<<<"m", "e", "t", "a">>, JObj(<< <<<<"c", "o", "u", "n", "t", "r", "y">>, JStr(<<"U", "S">>)>> >>)>> >>))

Texts ==
    { T_Id1, T_IdExtra, T_IdStr7, T_IdStrX, T_IdDup, T_Spaced, T_Yaml, T_YamlStr,
      T_YamlExtra, T_Flow, T_BadBrace, T_BadPlain, T_Empty, T_Blank, T_Array }

GMap(m) == MapV(GenericMapT, m)
GSlice(e) == SliceV(GenericSliceT, e)

\* A map[string]interface{} of one and of two entries
M1(k, v) == [x \in {k} |-> v]
M2(k1, v1, k2, v2) == [x \in {k1, k2} |-> IF x = k1 THEN v1 ELSE v2]

UserMaps ==
    { M1(<<"i", "d">>, FloatV(10)),
      M2(<<"i", "d">>, FloatV(10), <<"e", "x", "t", "r", "a">>, FloatV(20)),
      M2(<<"i", "d">>, FloatV(10), <<"I", "D">>, FloatV(20)),
      M2(<<"i", "d">>, StrV(<<"x">>), <<"n", "a", "m", "e">>, BoolV(TRUE)),
      M2(<<"i", "d">>, StrV(<<"x">>), <<"e", "x", "t", "r", "a">>, FloatV(20)),
      M1(<<"n", "a", "m", "e">>, StrV(<<"n">>)),
      M1(<<"N", "A", "M", "E">>, NilIface) }

SecretMaps ==
    { M1(<<"i", "d">>, FloatV(10)), M1(<<"t", "o", "k", "e", "n">>, StrV(<<"s">>)), M1(<<"T", "o", "k", "e", "n">>, StrV(<<"s">>)),
      M1(<<"-">>, StrV(<<"s">>)) }

ShadowMaps ==
    { M1(<<"n", "a", "m", "e">>, StrV(<<"n">>)), M1(<<"t", "i", "t", "l", "e">>, StrV(<<"t">>)), M1(<<"a", "l", "i", "a", "s">>, StrV(<<"a">>)),
      M1(<<"T", "I", "T", "L", "E">>, StrV(<<"t">>)), M1(<<"o", "t", "h", "e", "r">>, StrV(<<"o">>)) }

NestedMaps ==
    { M1(<<"c", "o", "u", "n", "t">>, StrV(<<"5">>)), M1(<<"c", "o", "u", "n", "t">>, StrV(<<"9", "9", "9">>)),
      M1(<<"t", "a", "g", "s">>, GSlice(<<StrV(<<"1">>), StrV(<<"2">>)>>)),
      M1(<<"t", "a", "g", "s">>, GSlice(<<StrV(<<"1">>), StrV(<<"x">>)>>)),
      M1(<<"a", "t", "t", "r", "s">>, GMap(M1(<<"a">>, StrV(<<"1">>)))),
      M1(<<"a", "t", "t", "r", "s">>, GMap(M1(<<"a">>, StrV(<<"x">>)))),
      M1(<<"p", "t", "r">>, StrV(<<"1">>)), M1(<<"p", "t", "r">>, StrV(<<"x">>)),
      M1(<<"m", "e", "t", "a">>, GMap(M1(<<"c", "o", "u", "n", "t", "r", "y">>, StrV(<<"U", "S">>)))),
      M1(<<"m", "e", "t", "a">>, GMap(M2(<<"c", "o", "u", "n", "t", "r", "y">>, StrV(<<"U", "S">>), <<"s", "e", "s", "s", "i", "o", "n", "s">>, StrV(<<"x">>)))),
      M1(<<"m", "e", "t", "a">>, FloatV(10)) }

\* Inputs that are neither bytes, string nor map[string]interface{}
Values ==
    { UserV(5, <<"n">>), PtrV(PtrT(UserT), UserV(5, <<"n">>)), NilOf(PtrT(UserT)),
      NilIface, IntV(GoInt, 123), GSlice(<<StrV(<<"a">>), StrV(<<"b">>)>>) }

\* The inputs a caller holding a destination of type T passes
TextsFor(T) ==
    CASE T = UserT -> Texts
      [] T = SecretT -> {T_Id1, T_Token}
      [] T = ShadowT -> {T_Name}
      [] T = NestedT -> {T_Meta}
      [] OTHER -> {T_Array, T_Id1, T_Quoted}

MapsFor(T) ==
    CASE T = UserT -> UserMaps
      [] T = SecretT -> SecretMaps
      [] T = ShadowT -> ShadowMaps
      [] T = NestedT -> NestedMaps
      [] OTHER -> {M1(<<"v", "a", "l", "u", "e">>, StrV(<<"h", "e", "l", "l", "o">>)), M2(<<"a">>, StrV(<<"x">>), <<"b">>, StrV(<<"y">>)), EmptyMap}

ValuesFor(T) ==
    CASE T = UserT -> Values
      [] T = StringsT -> {GSlice(<<StrV(<<"a">>), StrV(<<"b">>)>>), IntV(GoInt, 123)}
      [] T = StringT -> {IntV(GoInt, 65), BoolV(TRUE)}
      [] OTHER -> {UserV(5, <<"n">>)}

\* What a caller passes as bytes or string, and, by mistake, a number
TextInputsFor(T) ==
    {Bytes(t) : t \in TextsFor(T)}
        \cup {String(t) : t \in TextsFor(T) \cap {T_Id1, T_Yaml, T_Empty}}
        \cup {Other(IntV(GoInt, 123))}

InputsFor(T) ==
    TextInputsFor(T)
        \cup {Map(m) : m \in MapsFor(T)}
        \cup {Other(v) : v \in ValuesFor(T)}

(***************************************************************************)
(* The state machine: a caller that holds a decoder and a destination and  *)
(* calls the package, one call after the other.                            *)
(***************************************************************************)
NoCall == [op |-> "none"]

Call(op, d, input, r) ==
    [op |-> op, dec |-> d, input |-> input, out |-> out, pre |-> store,
     err |-> r.err, trace |-> r.trace]

\* What the caller's variable holds after a call with outcome r: only a call
\* given a pointer to it can have changed it
After(r) == IF out = "ptr" THEN r.store ELSE store

Init ==
    /\ dec = NewDecoder
    /\ store \in Stores
    /\ out \in IF store = Zero(UserT) THEN Outputs ELSE {"ptr"}
    /\ last = NoCall
    /\ calls = 0
    /\ tasks = <<>>

\* The caller builds another decoder: &MapDecoder{...}
Configure ==
    /\ calls < MaxCalls
    /\ \E d \in Decoders : dec' = d
    /\ dec' # dec
    /\ last' = NoCall
    /\ UNCHANGED <<out, store, calls, tasks>>

CallDecode ==
    /\ calls < MaxCalls
    /\ \E input \in InputsFor(store.t) : \E r \in Decode(dec, input, out, store) :
        /\ store' = After(r)
        /\ last' = Call("Decode", dec, input, r)
        /\ calls' = calls + 1
        /\ UNCHANGED <<dec, out, tasks>>

CallDecodeJSON ==
    /\ calls < MaxCalls
    /\ \E input \in TextInputsFor(store.t) : \E r \in DecodeJSON(input, out, store) :
        /\ store' = After(r)
        /\ last' = Call("DecodeJSON", NewDecoder, input, r)
        /\ calls' = calls + 1
        /\ UNCHANGED <<dec, out, tasks>>

CallDecodeYAML ==
    /\ calls < MaxCalls
    /\ \E input \in TextInputsFor(store.t) : \E r \in DecodeYAML(input, out, store) :
        /\ store' = After(r)
        /\ last' = Call("DecodeYAML", [NewDecoder EXCEPT !.TagName = "yaml"], input, r)
        /\ calls' = calls + 1
        /\ UNCHANGED <<dec, out, tasks>>

CallAutoDecode ==
    /\ calls < MaxCalls
    /\ \E input \in TextInputsFor(store.t) : \E r \in AutoDecode(input, out, store) :
        /\ store' = After(r)
        /\ last' = Call("AutoDecode", NewDecoder, input, r)
        /\ calls' = calls + 1
        /\ UNCHANGED <<dec, out, tasks>>

CallDecodeMap ==
    /\ calls < MaxCalls
    /\ \E m \in MapsFor(store.t) : \E r \in DecodeMap(m, out, store) :
        /\ store' = After(r)
        /\ last' = Call("DecodeMap", NewDecoder, Map(m), r)
        /\ calls' = calls + 1
        /\ UNCHANGED <<dec, out, tasks>>

Next ==
    \/ Configure
    \/ CallDecode
    \/ CallDecodeJSON
    \/ CallDecodeYAML
    \/ CallAutoDecode
    \/ CallDecodeMap

Spec == Init /\ [][Next]_vars

(***************************************************************************)
(* The conversions and the struct operations: a caller that decodes one    *)
(* value into a field of each type, turns structs into maps, and decodes   *)
(* such a map or a struct into a struct.                                   *)
(***************************************************************************)
MaxSteps == 2

Float32T == [kind |-> "float", bits |-> 32]

\* struct { N T `json:"n" yaml:"n"` }
RecT(T) == StructT("Rec", <<Field(<<"N">>, BothTags(<<"n">>), T)>>)

ScalarTypes ==
    { IntT(8), IntT(16), IntT(32), IntT(64), UintT(8), UintT(16), UintT(32), UintT(64),
      Float32T, Float64T, BoolT, StringT, StringsT, TimeT }

\* Strings every type is offered
Words ==
    { StrV(<<"5">>), StrV(<<"-", "5">>), StrV(<<"0", "0", "7">>), StrV(<<"+", "7">>),
      StrV(<<"1", "2", "7">>), StrV(<<"1", "2", "8">>), StrV(<<"-", "1", "2", "8">>),
      StrV(<<"-", "1", "2", "9">>), StrV(<<"2", "5", "5">>), StrV(<<"2", "5", "6">>),
      StrV(<<"3", "2", "7", "6", "7">>), StrV(<<"3", "2", "7", "6", "8">>),
      StrV(<<"6", "5", "5", "3", "5">>), StrV(<<"6", "5", "5", "3", "6">>), StrV(<<"1", ".", "5">>),
      StrV(<<"a", "b", "c">>), StrV(<<>>), StrV(<<"y", "e", "s">>), StrV(<<"Y">>),
      StrV(<<"O", "N">>), StrV(<<"o", "n">>), StrV(<<"n", "o">>), StrV(<<"o", "f", "f">>),
      StrV(<<"m", "a", "y", "b", "e">>), StrV(<<"T", "R", "U", "E">>), StrV(<<"t", "r", "u", "e">>),
      StrV(<<"F", "a", "l", "s", "e">>), StrV(<<"t">>), StrV(<<"0">>), StrV(<<"1">>),
      StrV(<<"a", ",", " ", "b", " ", ",", "c">>), StrV(<<"a", ",", ",", "b">>),
      StrV(<<" ", "x", " ">>), StrV(<<"2", "0", "2", "3", "-", "1", "2", "-", "2", "5">>),
      StrV(<<"2", "0", "2", "3", "-", "1", "2", "-", "2", "5", "T", "1", "0", ":", "3", "0", ":", "0", "0", "Z">>),
      StrV(<<"2", "0", "2", "3", "-", "1", "2", "-", "2", "5", " ", "1", "0", ":", "3", "0", ":", "0", "0">>),
      StrV(<<"2", "0", "2", "3", "-", "0", "2", "-", "3", "0">>) }

\* Digit strings beyond 2^31: offered to the integer types that reject them
Beyond32 == { StrV(<<"2", "1", "4", "7", "4", "8", "3", "6", "4", "8">>),
StrV(<<"-", "2", "1", "4", "7", "4", "8", "3", "6", "4", "9">>) }
Beyond64 == { 
StrV(<<"9", "2", "2", "3", "3", "7", "2", "0", "3", "6", "8", "5", "4", "7", "7", "5", "8", "0", "8">>),
StrV(<<"-", "9", "2", "2", "3", "3", "7", "2", "0", "3", "6", "8", "5", "4", "7", "7", "5", "8", "0", "9">>) }
BeyondAll == { 
StrV(<<"1", "8", "4", "4", "6", "7", "4", "4", "0", "7", "3", "7", "0", "9", "5", "5", "1", "6", "1", "6">>) }

\* Numbers below zero: offered to every type but the unsigned ones of 32 and
\* 64 bits, whose values for them are beyond the numbers of the model
Negatives == {FloatV(-15), FloatV(-19), FloatV(-10), FloatV(-3000), IntV(GoInt, -1)}

Numbers ==
    { FloatV(0), FloatV(5), FloatV(15), FloatV(19), FloatV(70), FloatV(1270), FloatV(1280),
      FloatV(2559), FloatV(3000), FloatV(700000), IntV(GoInt, 65), IntV(GoInt, 300) }

\* Pointer, slice and map fields
CompositeTypes ==
    {PtrT(GoInt), PtrT(IntT(8)), PtrT(StringT), SliceT(GoInt), MapT(StringT, GoInt)}

\* The values decoded into such a field: nil, strings, numbers, pointers (nil
\* and not), a slice and a map
CompositeSources ==
    { NilIface, StrV(<<"5">>), StrV(<<"3", "0", "0">>), StrV(<<"a", "b", "c">>),
      FloatV(15), FloatV(3000), IntV(GoInt, 7), BoolV(TRUE),
      NilOf(PtrT(GoInt)), NilOf(PtrT(StringT)),
      PtrV(PtrT(GoInt), IntV(GoInt, 7)), PtrV(PtrT(StringT), StrV(<<"5">>)),
      PtrV(PtrT(StringT), StrV(<<"a", "b", "c">>)),
      GSlice(<<StrV(<<"1">>), FloatV(20)>>), GSlice(<<StrV(<<"1">>), StrV(<<"x">>)>>),
      GMap(M1(<<"a">>, StrV(<<"1">>))) }

\* The values decoded into a field of type T
SourcesFor(T) ==
    IF T \in CompositeTypes THEN CompositeSources ELSE
    Words \cup Numbers \cup {BoolV(TRUE), BoolV(FALSE), NilIface}
        \cup (IF T.kind = "uint" /\ T.bits >= 32 THEN {} ELSE Negatives)
        \cup (IF T = IntT(32) THEN Beyond32 ELSE {})
        \cup (IF T.kind = "int" \/ (T.kind = "uint" /\ T.bits < 64) THEN Beyond64 ELSE {})
        \cup (IF T.kind \in {"int", "uint"} THEN BeyondAll ELSE {})

\* struct { Required string `json:"required"`; Optional string `json:"optional,omitempty"`;
\*          Number int `json:"number,omitempty"`; Policy string `json:"omitempty_policy"`;
\*          private string; NoTag string; CommaTag string `json:",omitempty"` }
OmitT ==
    StructT("OmitEmpty",
        <<Field(<<"R", "e", "q", "u", "i", "r", "e", "d">>, BothTags(<<"r", "e", "q", "u", "i", "r", "e", "d">>), StringT),
          Field(<<"O", "p", "t", "i", "o", "n", "a", "l">>, BothTags(<<"o", "p", "t", "i", "o", "n", "a", "l", ",", "o", "m", "i", "t", "e", "m", "p", "t", "y">>), StringT),
          Field(<<"N", "u", "m", "b", "e", "r">>, BothTags(<<"n", "u", "m", "b", "e", "r", ",", "o", "m", "i", "t", "e", "m", "p", "t", "y">>), GoInt),
          Field(<<"P", "o", "l", "i", "c", "y">>, BothTags(<<"o", "m", "i", "t", "e", "m", "p", "t", "y", "_", "p", "o", "l", "i", "c", "y">>), StringT),
          Field(<<"p", "r", "i", "v", "a", "t", "e">>, BothTags(<<>>), StringT),
          Field(<<"N", "o", "T", "a", "g">>, BothTags(<<>>), StringT),
          Field(<<"C", "o", "m", "m", "a", "T", "a", "g">>, BothTags(<<",", "o", "m", "i", "t", "e", "m", "p", "t", "y">>), StringT)>>)

\* struct { ID int `json:"user_id" yaml:"uid"`; Name string `json:"name" yaml:"name"` }
AccountT ==
    StructT("Account",
        <<Field(<<"I", "D">>, [json |-> <<"u", "s", "e", "r", "_", "i", "d">>, yaml |-> <<"u", "i", "d">>], GoInt),
          Field(<<"N", "a", "m", "e">>, BothTags(<<"n", "a", "m", "e">>), StringT)>>)

RecordTypes == {UserT, SecretT, ShadowT, NestedT, OmitT, AccountT}

\* The struct values a caller holds
Records ==
    { UserV(5, <<"n">>), Zero(UserT),
      StructV(SecretT, <<IntV(GoInt, 1), StrV(<<"s">>)>>),
      StructV(ShadowT, <<StrV(<<"a">>), StrV(<<"b">>)>>),
      StructV(NestedT, <<IntV(IntT(8), 9),
                         SliceV(SliceT(GoInt), <<IntV(GoInt, 9)>>),
                         MapV(MapT(StringT, GoInt), [k \in {<<"o", "l", "d">>} |-> IntV(GoInt, 9)]),
                         PtrV(PtrT(GoInt), IntV(GoInt, 9)),
                         InnerV(<<"U", "S">>, 9)>>),
      Zero(OmitT),
      StructV(OmitT, <<StrV(<<"r">>), StrV(<<"o">>), IntV(GoInt, 7), StrV(<<"p">>),
                       StrV(<<"h">>), StrV(<<"t">>), StrV(<<"c">>)>>),
      StructV(OmitT, <<StrV(<<"r">>), StrV(<<>>), IntV(GoInt, 0), StrV(<<>>),
                       StrV(<<"h">>), StrV(<<>>), StrV(<<>>)>>),
      StructV(AccountT, <<IntV(GoInt, 5), StrV(<<"n">>)>>) }

\* What a caller holding a destination of type T passes to ToMap: a struct of
\* that type, a pointer to it, a nil pointer, and, by mistake, a number
ToMapInputsFor(T) ==
    {r \in Records : r.t = T}
        \cup {PtrV(PtrT(T), r) : r \in {x \in Records : x.t = T}}
        \cup {NilOf(PtrT(T)), IntV(GoInt, 123)}

\* The structs passed to Decode as input
StructInputsFor(T) ==
    IF T \in {UserT, AccountT, NestedT}
    THEN {r \in Records : r.t = T} \cup {PtrV(PtrT(T), r) : r \in {x \in Records : x.t = T}}
    ELSE {}

ValueDecoders ==
    { NewDecoder,
      MapDecoder(FALSE, "json", TRUE, TRUE),
      MapDecoder(TRUE, "yaml", TRUE, TRUE),
      MapDecoder(TRUE, "json", FALSE, FALSE) }

\* type Level1 struct { L2 Level2 `json:"level2"` }
\* type Level2 struct { L3 Level3 `json:"level3"` }
\* type Level3 struct { Value string `json:"value"`; Count int `json:"count"` }
Level1T ==
    StructT("Level1",
      <<Field(<<"L", "2">>, [json |-> <<"l", "e", "v", "e", "l", "2">>],
          StructT("Level2",
            <<Field(<<"L", "3">>, [json |-> <<"l", "e", "v", "e", "l", "3">>],
                StructT("Level3",
                  <<Field(<<"V", "a", "l", "u", "e">>, [json |-> <<"v", "a", "l", "u", "e">>], StringT),
                    Field(<<"C", "o", "u", "n", "t">>, [json |-> <<"c", "o", "u", "n", "t">>], GoInt)>>))>>))>>)

\* Documents nested three levels deep, by the key of each level and the
\* innermost map; and one with a key of the second level that no field has
Level1Maps ==
    { M1(k1, GMap(M1(k2, GMap(m3)))) :
        k1 \in {<<"l", "e", "v", "e", "l", "2">>, <<"L", "2">>},
        k2 \in {<<"l", "e", "v", "e", "l", "3">>, <<"l", "3">>},
        m3 \in { M1(<<"v", "a", "l", "u", "e">>, StrV(<<"d", "e", "e", "p">>)),
                 M1(<<"V", "A", "L", "U", "E">>, StrV(<<"d", "e", "e", "p">>)),
                 M1(<<"c", "o", "u", "n", "t">>, StrV(<<"5">>)),
                 M2(<<"c", "o", "u", "n", "t">>, StrV(<<"x">>), <<"v", "a", "l", "u", "e">>, StrV(<<"d", "e", "e", "p">>)),
                 M2(<<"e", "x", "t", "r", "a">>, FloatV(10), <<"v", "a", "l", "u", "e">>, StrV(<<"d", "e", "e", "p">>)) } }
      \cup { M1(<<"l", "e", "v", "e", "l", "2">>, GMap(M1(<<"e", "x", "t", "r", "a">>, FloatV(10)))) }

InitValues ==
    /\ dec \in ValueDecoders
    /\ store \in {Zero(RecT(T)) : T \in ScalarTypes \cup CompositeTypes}
                    \cup {Zero(T) : T \in RecordTypes \cup {Level1T}}
    /\ out = "ptr"
    /\ last = NoCall
    /\ calls = 0
    /\ tasks = <<>>

\* decoder.Decode(map[string]interface{}{"n": v}, &rec)
CoerceField ==
    /\ calls < MaxSteps
    /\ store.t.name = "Rec"
    /\ \E v \in SourcesFor(store.t.fields[1].type) :
         \E r \in Decode(dec, Map(M1(<<"n">>, v)), out, store) :
            /\ store' = After(r)
            /\ last' = Call("Decode", dec, Map(M1(<<"n">>, v)), r)
            /\ calls' = calls + 1
            /\ UNCHANGED <<dec, out, tasks>>

\* The strings a caller sends as the value of "n" in a JSON document
JSONWords ==
    { <<"5">>, <<"1", ".", "5">>, <<"a", "b", "c">>, <<"t", "r", "u", "e">>, <<"a", ",", " ", "b", " ", ",", "c">>,
      <<"2", "0", "2", "3", "-", "1", "2", "-", "2", "5">>,
      <<"2", "0", "2", "3", "-", "1", "2", "-", "2", "5", "T", "1", "0", ":", "3", "0", ":", "0", "0", "Z">> }

\* The document {"n":"<word>"}, which reads the same as JSON and as YAML
RecText(word) ==
    Text(<<"{", "\"", "n", "\"", ":", "\"">> \o word \o <<"\"", "}">>,
         JObj(<< <<<<"n">>, JStr(word)>> >>), JObj(<< <<<<"n">>, JStr(word)>> >>))

\* decoder.Decode([]byte(`{"n":"<word>"}`), &rec)
CoerceFieldJSON ==
    /\ calls < MaxSteps
    /\ store.t.name = "Rec"
    /\ \E word \in JSONWords :
         \E r \in Decode(dec, Bytes(RecText(word)), out, store) :
            /\ store' = After(r)
            /\ last' = Call("Decode", dec, Bytes(RecText(word)), r)
            /\ calls' = calls + 1
            /\ UNCHANGED <<dec, out, tasks>>

\* decoder.Decode(data, &result), data nested as result is
CallDecodeNested ==
    /\ calls < MaxSteps
    /\ store.t = Level1T
    /\ \E m \in Level1Maps : \E r \in Decode(dec, Map(m), out, store) :
        /\ store' = After(r)
        /\ last' = Call("Decode", dec, Map(m), r)
        /\ calls' = calls + 1
        /\ UNCHANGED <<dec, out, tasks>>

\* m, err := ToMap(r)
CallToMap ==
    /\ calls < MaxSteps
    /\ store.t \in RecordTypes
    /\ \E r \in ToMapInputsFor(store.t) :
        /\ last' = [op |-> "ToMap", input |-> Other(r), pre |-> store,
                    err |-> ToMap(r).err, m |-> ToMap(r).m]
        /\ calls' = calls + 1
        /\ UNCHANGED <<dec, out, store, tasks>>

\* DecodeMap(m, &r2), m the map ToMap has just returned
CallDecodeMapOf ==
    /\ calls < MaxSteps
    /\ last.op = "ToMap"
    /\ last.err = ErrNone
    /\ \E r \in DecodeMap(last.m, out, store) :
        /\ store' = After(r)
        /\ last' = Call("DecodeMap", NewDecoder, Map(last.m), r) @@ [from |-> last.input.v]
        /\ calls' = calls + 1
        /\ UNCHANGED <<dec, out, tasks>>

\* decoder.Decode(src, &dst), src a struct or a pointer to one
CallDecodeStruct ==
    /\ calls < MaxSteps
    /\ \E v \in StructInputsFor(store.t) : \E r \in Decode(dec, Other(v), out, store) :
        /\ store' = After(r)
        /\ last' = Call("Decode", dec, Other(v), r)
        /\ calls' = calls + 1
        /\ UNCHANGED <<dec, out, tasks>>

NextValues ==
    \/ CoerceField
    \/ CoerceFieldJSON
    \/ CallDecodeNested
    \/ CallToMap
    \/ CallDecodeMapOf
    \/ CallDecodeStruct

SpecValues == InitValues /\ [][NextValues]_vars

(***************************************************************************)
(* Decodes that run at the same time.  Two goroutines decode a map each    *)
(* into a User of their own, through the decoder they share or through the *)
(* package function; a step is what one goroutine does between two points  *)
(* at which the other may run: the start of decodeMap, one turn of its     *)
(* loop, its end.                                                          *)
(***************************************************************************)
Tasks == {1, 2}

TaskMaps ==
    { M2(<<"i", "d">>, FloatV(10), <<"e", "x", "t", "r", "a">>, FloatV(20)),
      M2(<<"i", "d">>, StrV(<<"x">>), <<"n", "a", "m", "e">>, BoolV(TRUE)),
      M2(<<"i", "d">>, StrV(<<"x">>), <<"e", "x", "t", "r", "a">>, FloatV(20)),
      M2(<<"i", "d">>, StrV(<<"7">>), <<"n", "a", "m", "e">>, StrV(<<"n">>)),
      M1(<<"n", "a", "m", "e">>, StrV(<<"n">>)) }

\* A goroutine that has not called yet: shared is the decoder as it was
\* built, pre what its destination holds.  A call notes the steps taken by
\* both when it began and when it ended.
Idle(d, v) == [pc |-> "idle", shared |-> d, pre |-> v, dst |-> v]

\* decodeMap, were the reset of the destination noted in the decoder
decoderCleared(d) == [d EXCEPT !.ZeroFields = FALSE]

\* decodeMap and setValue assign to no field of d: the decoder after a step
decoderAfter(d) == d

\* The decoder of a call: DecodeMap builds its own, NewDecoder().Decode(m, output)
decoderOf(via, d) == IF via = "DecodeMap" THEN NewDecoder ELSE d

InitTasks ==
    /\ dec \in ValueDecoders
    /\ out = "ptr"
    /\ store = Zero(UserT)
    /\ last = NoCall
    /\ calls = 0
    /\ tasks \in { [t \in Tasks |-> Idle(dec, pre[t])] :
                     pre \in [Tasks -> {Zero(UserT), UserV(9, <<"o", "l", "d">>)}] }

\* decodeMap up to its loop: the field map, the reset under ZeroFields
StartTask(t) ==
    /\ tasks[t].pc = "idle"
    /\ \E via \in {"Decode", "DecodeMap"} : \E m \in TaskMaps :
         LET d == decoderOf(via, dec)
             rt == tasks[t].dst.t
         IN tasks' = [tasks EXCEPT ![t] =
                [pc |-> "loop", shared |-> tasks[t].shared, pre |-> tasks[t].pre,
                 via |-> via, m |-> m, fm |-> fieldMap(d, rt),
                 dst |-> IF d.ZeroFields THEN Zero(rt) ELSE tasks[t].dst,
                 left |-> DOMAIN m, unknown |-> <<>>, err |-> ErrNone,
                 began |-> calls, ended |-> 0]]
    /\ dec' = decoderAfter(dec)
    /\ calls' = calls + 1
    /\ UNCHANGED <<out, store, last>>

\* One turn of decodeMap's loop, for any key not yet taken
LoopTask(t) ==
    /\ tasks[t].pc = "loop"
    /\ \E key \in tasks[t].left :
         LET task == tasks[t]
             d == decoderOf(task.via, dec)
             rt == task.dst.t
             fieldIndex == lookupField(task.fm, key)
             taken == [task EXCEPT !.left = task.left \ {key}]
         IN IF fieldIndex = 0
            THEN tasks' = [tasks EXCEPT ![t] =
                              [taken EXCEPT !.unknown = Append(task.unknown, key)]]
            ELSE IF ~IsExported(rt.fields[fieldIndex])
            THEN tasks' = [tasks EXCEPT ![t] = taken]
            ELSE \E r \in setValue(d, rt.fields[fieldIndex].type,
                                   task.dst.f[fieldIndex], task.m[key]) :
                    tasks' = [tasks EXCEPT ![t] =
                        IF r.err # ErrNone
                        THEN [task EXCEPT !.pc = "done",
                                          !.err = Wrap(rt.fields[fieldIndex].name, r.err),
                                          !.dst.f[fieldIndex] = r.val,
                                          !.ended = calls]
                        ELSE [taken EXCEPT !.dst.f[fieldIndex] = r.val]]
    /\ dec' = decoderAfter(dec)
    /\ calls' = calls + 1
    /\ UNCHANGED <<out, store, last>>

\* decodeMap after its loop: the check of unknownKeys, the return
EndTask(t) ==
    /\ tasks[t].pc = "loop"
    /\ tasks[t].left = {}
    /\ LET task == tasks[t]
           d == decoderOf(task.via, dec)
       IN tasks' = [tasks EXCEPT ![t] =
              [task EXCEPT !.pc = "done",
                           !.err = IF ~d.IgnoreUnknownKeys /\ Len(task.unknown) > 0
                                   THEN Err("unknown_field", <<>>, task.unknown[1])
                                   ELSE ErrNone,
                           !.ended = calls]]
    /\ dec' = decoderAfter(dec)
    /\ calls' = calls + 1
    /\ UNCHANGED <<out, store, last>>

NextTasks ==
    \/ \E t \in Tasks : StartTask(t)
    \/ \E t \in Tasks : LoopTask(t)
    \/ \E t \in Tasks : EndTask(t)

SpecTasks == InitTasks /\ [][NextTasks]_vars

(***************************************************************************)
(* What the claims speak of                                                *)
(***************************************************************************)
TextForms == {"bytes", "string"}

\* The last call decoded a map the caller passed, into a struct it pointed to
MapIntoStruct ==
    /\ last.op \in {"Decode", "DecodeMap"}
    /\ last.input.form = "map"
    /\ last.out = "ptr"
    /\ last.pre.t.kind = "struct"

\* The keys of the document an input holds
DocKeys(input) ==
    CASE input.form = "map" -> DOMAIN input.m
      [] input.form \in TextForms ->
            IF input.text.json.n = "obj" THEN DOMAIN unmarshalMap("json", input.text).m
            ELSE IF input.text.yaml.n = "obj" THEN DOMAIN unmarshalMap("yaml", input.text).m
            ELSE {}
      [] OTHER -> {}

\* The primary name the tag of namespace ns gives a field, <<>> if none
PrimaryName(field, ns) ==
    LET tag == TagGet(field, ns)
    IN IF tag # <<>> /\ Split(tag, ",")[1] \notin {<<>>, <<"-">>}
       THEN Split(tag, ",")[1] ELSE <<>>

\* The fields some key of the input names, by the decoder's index or by the
\* matching of a native decode, under either tag namespace
NamedFields(T, input) ==
    { i \in DOMAIN T.fields :
        \E k \in DocKeys(input) : \E ns \in {"json", "yaml"} :
            \/ lookupField(fieldMap([NewDecoder EXCEPT !.TagName = ns], T), k) = i
            \/ nativeField(ns, T, k) = i }

\* The outcomes the last call could have had, over every iteration order
Outcomes ==
    CASE last.op = "Decode" -> Decode(last.dec, last.input, last.out, last.pre)
      [] last.op = "DecodeJSON" -> DecodeJSON(last.input, last.out, last.pre)
      [] last.op = "DecodeYAML" -> DecodeYAML(last.input, last.out, last.pre)
      [] last.op = "AutoDecode" -> AutoDecode(last.input, last.out, last.pre)
      [] last.op = "DecodeMap" -> DecodeMap(last.input.m, last.out, last.pre)
      [] OTHER -> {}

\* An error without the key an unknown-field error names
Unkeyed(err) == [err EXCEPT !.key = <<>>]

\* C1: with IgnoreUnknownKeys=false, Decoder.Decode of bytes, a string or a
\* map holding a key that resolves to no field of the destination struct
\* returns the unknown-field error (a value that fails to convert may be
\* reported instead), also when every other value has its field's type;
\* with IgnoreUnknownKeys=true no unknown-field error is returned.
C1_UnknownKeyIsAnError ==
    ( /\ last.op = "Decode"
      /\ last.out = "ptr"
      /\ last.pre.t.kind = "struct"
      /\ last.input.form \in TextForms \cup {"map"}
      /\ \E k \in DocKeys(last.input) :
            lookupField(fieldMap(last.dec, last.pre.t), k) = 0 )
    => IF last.dec.IgnoreUnknownKeys
       THEN last.err.kind # "unknown_field"
       ELSE last.err.kind \in {"unknown_field", "convert"}

\* C2: with ZeroFields=true, after a successful decode through DecodeJSON,
\* DecodeYAML, AutoDecode, DecodeMap or Decoder.Decode, every field of the
\* destination that no key of the document names holds the zero value of its
\* type, whatever it held before and whichever path decoded.
C2_UnnamedFieldsAreZero ==
    ( /\ last.op \in {"Decode", "DecodeJSON", "DecodeYAML", "AutoDecode", "DecodeMap"}
      /\ last.dec.ZeroFields
      /\ last.err = ErrNone
      /\ last.out = "ptr"
      /\ last.pre.t.kind = "struct"
      /\ last.input.form \in TextForms \cup {"map"} )
    => \A i \in DOMAIN store.t.fields :
          i \notin NamedFields(store.t, last.input)
              => store.f[i] = Zero(store.t.fields[i].type)

\* C3: when setValue fails to convert the value of a field, the field holds
\* what it held when its conversion started (the zero value under ZeroFields,
\* else what the caller left there): a scalar, a slice, a map, a pointer and
\* a nested struct alike; and the failure is returned, not swallowed.
C3_FailedFieldUntouched ==
    ( /\ MapIntoStruct
      /\ Cardinality(DOMAIN last.input.m) = 1
      /\ \E k \in DOMAIN last.input.m :
            LET i == lookupField(fieldMap(last.dec, last.pre.t), k)
            IN /\ i # 0
               /\ \E r \in setValue(last.dec, last.pre.t.fields[i].type,
                                    IF last.dec.ZeroFields
                                    THEN Zero(last.pre.t.fields[i].type)
                                    ELSE last.pre.f[i],
                                    last.input.m[k]) : r.err # ErrNone )
    => /\ last.err # ErrNone
       /\ \A i \in DOMAIN store.t.fields :
             store.f[i] = IF last.dec.ZeroFields
                          THEN Zero(store.t.fields[i].type) ELSE last.pre.f[i]

\* C4: the outcome of a map decode (the error, the field a conversion error
\* names, the destination after) is the same for every order in which the
\* keys of the document are iterated; only the key an unknown-field error
\* names may differ.
C4_OrderIndependent ==
    MapIntoStruct
    => \A r \in Outcomes :
          /\ Unkeyed(r.err) = Unkeyed(last.err)
          /\ r.store = store

\* C5: a field whose tag in the decoder's namespace is "-" is never assigned
\* by a map decode (it keeps what it held, or is reset by ZeroFields), and a
\* key equal to its declared or lower-cased name counts as unresolved: with
\* IgnoreUnknownKeys=false the decode of such a key alone is an unknown-field
\* error.
C5_ExcludedFieldNeverAssigned ==
    MapIntoStruct
    => \A i \in DOMAIN store.t.fields :
          TagGet(store.t.fields[i], last.dec.TagName) = <<"-">>
          => /\ store.f[i] \in {last.pre.f[i], Zero(store.t.fields[i].type)}
             /\ ( /\ ~last.dec.IgnoreUnknownKeys
                  /\ DOMAIN last.input.m \in
                        {{store.t.fields[i].name}, {ToLower(store.t.fields[i].name)}} )
                => last.err.kind = "unknown_field"

\* C6: a key equal to the primary tag name of field F resolves to F, also
\* when the lower-cased declared name of another field is the same string;
\* a key that is no tag name resolves by its case-insensitive match with a
\* declared name; a key that matches neither is unresolved (it sets nothing,
\* and is an unknown-field error under IgnoreUnknownKeys=false).
C6_TagNameResolvesFirst ==
    ( /\ MapIntoStruct
      /\ Cardinality(DOMAIN last.input.m) = 1 )
    => \A k \in DOMAIN last.input.m :
          LET T == store.t
              ns == last.dec.TagName
              tagged == {i \in DOMAIN T.fields :
                            IsExported(T.fields[i]) /\ PrimaryName(T.fields[i], ns) = k}
              named == {i \in DOMAIN T.fields :
                            /\ IsExported(T.fields[i])
                            /\ ToLower(T.fields[i].name) = ToLower(k)}
              start(i) == IF last.dec.ZeroFields
                          THEN Zero(T.fields[i].type) ELSE last.pre.f[i]
          IN /\ \A i \in tagged :
                   (last.err = ErrNone /\ last.input.m[k].t = T.fields[i].type)
                       => store.f[i] = last.input.m[k]
             /\ (tagged = {} /\ named = {})
                   => /\ \A i \in DOMAIN T.fields : store.f[i] = start(i)
                      /\ ~last.dec.IgnoreUnknownKeys => last.err.kind = "unknown_field"

\* C7: a Decoder.Decode whose output is nil or no pointer returns an error,
\* does not panic and changes nothing, for bytes, a string, a map, a struct
\* and every other input.
C7_BadOutputIsAnError ==
    (last.op = "Decode" /\ last.out # "ptr")
    => /\ last.err.kind \notin {"none", "panic"}
       /\ store = last.pre

\* The last call was an AutoDecode of text that opens, once trimmed, as JSON does
AutoBraced ==
    /\ last.op = "AutoDecode"
    /\ last.input.form \in TextForms
    /\ TrimSpace(last.input.text.bytes) # <<>>
    /\ TrimSpace(last.input.text.bytes)[1] \in {"{", "["}

Failed(err) == err # ErrNone /\ err # Panic

\* C8: AutoDecode of text whose first character after trimming is '{' or '['
\* calls DecodeJSON first and DecodeYAML only if DecodeJSON failed; it returns
\* nil exactly when one of the attempts succeeded, and when both failed it
\* returns the error of the JSON attempt.
C8_JSONFirstThenYAML ==
    AutoBraced
    => /\ Len(last.trace) \in {1, 2}
       /\ last.trace[1].step = "DecodeJSON"
       /\ Len(last.trace) = 2 <=> Failed(last.trace[1].err)
       /\ Len(last.trace) = 2 => last.trace[2].step = "DecodeYAML"
       /\ last.err = ErrNone <=> \E i \in DOMAIN last.trace : last.trace[i].err = ErrNone
       /\ (\A i \in DOMAIN last.trace : Failed(last.trace[i].err))
             => last.err = last.trace[1].err

\* An AutoDecode of brace-first text that neither decoder took, each with an
\* error of its own, has returned the error of the JSON attempt
C8_BothFailed ==
    /\ AutoBraced
    /\ Len(last.trace) = 2
    /\ Failed(last.trace[1].err) /\ Failed(last.trace[2].err)
    /\ last.trace[1].err # last.trace[2].err
    /\ last.err = last.trace[1].err

\* C9: AutoDecode returns an error, calls neither DecodeJSON nor DecodeYAML
\* and leaves the destination as it was when its input is neither []byte nor
\* string, or is empty once leading and trailing whitespace is trimmed.
C9_NothingToDecode ==
    ( /\ last.op = "AutoDecode"
      /\ \/ last.input.form \notin TextForms
         \/ TrimSpace(last.input.text.bytes) = <<>> )
    => /\ Failed(last.err)
       /\ last.trace = <<>>
       /\ store = last.pre

\* An AutoDecode of text that holds whitespace only, given a pointer to a
\* destination that held values, has returned the empty-input error
C9_BlankInput ==
    /\ last.op = "AutoDecode"
    /\ last.input.form \in TextForms
    /\ last.input.text.bytes # <<>>
    /\ TrimSpace(last.input.text.bytes) = <<>>
    /\ last.out = "ptr"
    /\ last.pre # Zero(last.pre.t)
    /\ last.err = ErrOf("empty")

\* C10: Decoder.Decode of a []interface{} into a pointer to a slice returns an
\* error, only a struct output being accepted for such input, and leaves the
\* slice unset.
C10_SequenceIntoSliceIsAnError ==
    ( /\ last.op = "Decode"
      /\ last.input.form = "other"
      /\ last.input.v.t = GenericSliceT
      /\ last.out = "ptr"
      /\ last.pre.t.kind = "slice" )
    => /\ last.err # ErrNone
       /\ store = last.pre

\* The last call decoded a map the caller passed, into a variable that is no
\* struct, through a pointer to it
MapIntoNonStruct ==
    /\ last.op \in {"Decode", "DecodeMap"}
    /\ last.input.form = "map"
    /\ last.out = "ptr"
    /\ last.pre.t.kind # "struct"

\* C11: a map decode into a non-nil pointer to a variable that is no struct
\* coerces the value of the document's only entry into the variable and
\* returns what that coercion returned; a document of no entry or of more
\* than one fails and leaves the variable as it was.
C11_SingleEntryEscape ==
    MapIntoNonStruct
    => IF Cardinality(DOMAIN last.input.m) = 1
       THEN \E k \in DOMAIN last.input.m :
               \E r \in setValue(last.dec, last.pre.t, last.pre, last.input.m[k]) :
                   last.err = r.err /\ store = r.val
       ELSE last.err = ErrOf("not_struct") /\ store = last.pre

\* A decode of {"value": "hello"} into a string variable has set it to "hello"
C11_WrappedScalar ==
    /\ MapIntoNonStruct
    /\ last.pre = Zero(StringT)
    /\ DOMAIN last.input.m = {<<"v", "a", "l", "u", "e">>}
    /\ last.err = ErrNone
    /\ store = StrV(<<"h", "e", "l", "l", "o">>)

\* The last call decoded {"n": v} into a struct of the one field N
Coerced ==
    /\ last.op = "Decode"
    /\ last.input.form = "map"
    /\ DOMAIN last.input.m = {<<"n">>}
    /\ last.out = "ptr"
    /\ last.pre.t.kind = "struct"
    /\ last.pre.t.name = "Rec"

\* The value decoded, the type of the field, and the field before the call
\* reached its conversion
Source == last.input.m[<<"n">>]
Target == last.pre.t.fields[1].type
Before == IF last.dec.ZeroFields THEN Zero(Target) ELSE last.pre.f[1]

\* The conversion failed: the type-conversion error for field N, the field
\* left as it was
ConversionFailed ==
    /\ last.err = Err("convert", <<<<"N">>>>, <<>>)
    /\ store.f[1] = Before

\* The number a string of digits with an optional "-" denotes is held by a
\* signed integer of that width: by the number where the model holds it, by
\* its digits where it is beyond
FitsSigned(s, bits) ==
    LET neg == Head(s) = "-"
        body == IF neg THEN Tail(s) ELSE s
        v == IF neg THEN -DigitsVal(body, 0) ELSE DigitsVal(body, 0)
    IN IF Len(StripZeros(body)) <= 9
       THEN bits >= 32 \/ (v >= -Pow2(bits - 1) /\ v <= Pow2(bits - 1) - 1)
       ELSE AtMost(body, MaxDigits(bits, IF neg THEN "neg" ELSE "int"))

FitsUnsigned(s, bits) ==
    IF Len(StripZeros(s)) <= 9
    THEN bits >= 32 \/ DigitsVal(s, 0) <= Pow2(bits) - 1
    ELSE AtMost(s, MaxDigits(bits, "uint"))

\* C12: with weak typing, a string of digits with an optional "-" decoded
\* into a signed integer field of 8, 16, 32 or 64 bits gives the integer it
\* denotes when that integer fits the width, and else the type-conversion
\* error, never a wrapped, clamped or zero value with success; the same for
\* a string of digits and the unsigned widths.
C12_DigitsIntoIntegers ==
    ( /\ Coerced
      /\ last.dec.WeaklyTyped
      /\ Source.t = StringT
      /\ Source.s # <<>>
      /\ Target.kind \in {"int", "uint"} )
    => LET s == Source.s
           neg == Head(s) = "-"
       IN /\ ( /\ Target.kind = "int"
               /\ AllDigits(IF neg THEN Tail(s) ELSE s) )
             => IF FitsSigned(s, Target.bits)
                THEN /\ last.err = ErrNone
                     /\ store.f[1] = IntV(Target, IF neg THEN -DigitsVal(Tail(s), 0)
                                                  ELSE DigitsVal(s, 0))
                ELSE ConversionFailed
          /\ (Target.kind = "uint" /\ AllDigits(s))
             => IF FitsUnsigned(s, Target.bits)
                THEN last.err = ErrNone /\ store.f[1] = IntV(Target, DigitsVal(s, 0))
                ELSE ConversionFailed

\* "128" decoded into an int8 field has returned the conversion error
C12_Int8Overflow ==
    /\ Coerced
    /\ last.dec.WeaklyTyped
    /\ Source = StrV(<<"1", "2", "8">>)
    /\ Target = IntT(8)
    /\ ConversionFailed

TrueWords ==
    {<<"t", "r", "u", "e">>, <<"1">>, <<"t">>, <<"y", "e", "s">>, <<"y">>, <<"o", "n">>}

FalseWords ==
    {<<"f", "a", "l", "s", "e">>, <<"0">>, <<"f">>, <<"n", "o">>, <<"n">>, <<"o", "f", "f">>}

Commas(s) == {i \in DOMAIN s : s[i] = ","} \cup {0, Len(s) + 1}

\* The segments of a string between two commas next to each other, in order
Segment(s, i) ==
    LET from == CHOOSE a \in Commas(s) : Cardinality({c \in Commas(s) : c < a}) = i - 1
        to == CHOOSE b \in Commas(s) : Cardinality({c \in Commas(s) : c < b}) = i
    IN SubSeq(s, from + 1, to - 1)

\* C14: with weak typing, a string decoded into a field that is a slice of
\* strings never fails and gives as many elements as the string has commas,
\* and one; element i is the i-th segment between commas, the whitespace
\* around it removed.
C14_StringIntoStrings ==
    ( /\ Coerced
      /\ last.dec.WeaklyTyped
      /\ Source.t = StringT
      /\ Target = StringsT )
    => /\ last.err = ErrNone
       /\ ~IsNilV(store.f[1])
       /\ Len(store.f[1].e) = Cardinality({i \in DOMAIN Source.s : Source.s[i] = ","}) + 1
       /\ \A i \in DOMAIN store.f[1].e :
             store.f[1].e[i] = StrV(TrimSpace(Segment(Source.s, i)))

\* "a, b ,c" decoded into a []string field has given ["a", "b", "c"]
C14_SpacedList ==
    /\ Coerced
    /\ last.dec.WeaklyTyped
    /\ Source = StrV(<<"a", ",", " ", "b", " ", ",", "c">>)
    /\ store.f[1] = SliceV(StringsT, <<StrV(<<"a">>), StrV(<<"b">>), StrV(<<"c">>)>>)

\* C15: with weak typing, a float64 decoded into a signed or an unsigned
\* integer field of any width gives the number truncated toward zero; into
\* a float field, the same number; into a string field, its decimal text.
C15_FloatIntoScalars ==
    ( /\ Coerced
      /\ last.dec.WeaklyTyped
      /\ Source.t = Float64T )
    => /\ Target.kind \in {"int", "uint"}
            => /\ last.err = ErrNone
               /\ store.f[1] = IntV(Target, IF Source.f < 0 THEN -((-Source.f) \div 10)
                                            ELSE Source.f \div 10)
       /\ Target.kind = "float"
            => last.err = ErrNone /\ store.f[1] = [t |-> Target, f |-> Source.f]
       /\ Target = StringT
            => last.err = ErrNone /\ store.f[1] = StrV(FormatFloat(Source.f))

\* The row and the column of the README's table a value and a type belong to
TableRow(v) ==
    CASE v.t = StringT -> "string"
      [] v.t = Float64T -> "float64"
      [] v.t = GoInt -> "int"
      [] v.t = BoolT -> "bool"
      [] OTHER -> "none"

TableColumn(T) ==
    CASE T = StringsT -> "[]string"
      [] T = TimeT -> "time.Time"
      [] OTHER -> T.kind

\* The table: string to every column; float64 and int to int, uint, float and
\* string; bool to bool and string
Supported(row, column) ==
    \/ row = "string"
    \/ row \in {"float64", "int"} /\ column \in {"int", "uint", "float", "string"}
    \/ row = "bool" /\ column \in {"bool", "string"}

\* A well-formed source for a column: a small number, true and false, and for
\* a string what the column reads ("5", "true", a date, or any text)
WellFormed(v, T) ==
    \/ v \in {FloatV(70), IntV(GoInt, 65), BoolV(TRUE), BoolV(FALSE)}
    \/ /\ v.t = StringT
       /\ CASE T.kind \in {"int", "uint", "float"} -> v.s = <<"5">>
            [] T = BoolT -> v.s = <<"t", "r", "u", "e">>
            [] T = TimeT -> v.s = <<"2", "0", "2", "3", "-", "1", "2", "-", "2", "5">>
            [] OTHER -> TRUE

\* C16: with WeaklyTyped, the conversion of a well-formed scalar succeeds for
\* the pairs of source and destination kind the README's table marks as
\* supported and fails for the pairs it marks as unsupported.
C16_ConversionTable ==
    ( /\ Coerced
      /\ last.dec.WeaklyTyped
      /\ TableRow(Source) # "none"
      /\ TableColumn(Target) \in {"int", "uint", "float", "bool", "string", "[]string", "time.Time"}
      /\ WellFormed(Source, Target) )
    => (last.err = ErrNone <=> Supported(TableRow(Source), TableColumn(Target)))

\* The struct a call of ToMap was given, through the pointer if it was given one
Projected == IF last.input.v.t.kind = "ptr" THEN last.input.v.p ELSE last.input.v

ProjectsStruct ==
    /\ last.op = "ToMap"
    /\ IF last.input.v.t.kind = "ptr" THEN ~IsNilV(last.input.v) ELSE TRUE
    /\ Projected.t.kind = "struct"

JsonTag(field) == TagGet(field, "json")

\* The segments of a tag after its name
Modifiers(field) ==
    IF JsonTag(field) = <<>> THEN {}
    ELSE {Split(JsonTag(field), ",")[j] : j \in 2..Len(Split(JsonTag(field), ","))}

OmitEmpty == <<"o", "m", "i", "t", "e", "m", "p", "t", "y">>

\* The key of a field: the first segment of its tag, else its declared name
KeyOf(field) ==
    IF JsonTag(field) # <<>> /\ Split(JsonTag(field), ",")[1] # <<>>
    THEN Split(JsonTag(field), ",")[1] ELSE field.name

\* The fields ToMap may show: exported and not tagged "-"
Shown(T) ==
    { i \in DOMAIN T.fields :
        /\ IsExported(T.fields[i])
        /\ ~(JsonTag(T.fields[i]) # <<>> /\ Split(JsonTag(T.fields[i]), ",")[1] = <<"-">>) }

\* C17: ToMap of a struct or of a pointer to one returns no error and a map
\* whose keys are keys of exported fields not tagged "-" (the first segment of
\* the tag, else the declared name), each with the value of its field as it
\* is, a nested struct as the struct; such a field has its entry when its
\* value is not zero or its tag does not have the text omitempty, and has none
\* when its value is zero and omitempty is a modifier of its tag.
C17_ToMapEntries ==
    ProjectsStruct =>
        LET T == Projected.t
        IN /\ last.err = ErrNone
           /\ DOMAIN last.m \subseteq {KeyOf(T.fields[i]) : i \in Shown(T)}
           /\ \A i \in Shown(T) :
                LET k == KeyOf(T.fields[i])
                IN /\ k \in DOMAIN last.m => last.m[k] = Projected.f[i]
                   /\ ( \/ ~IsZero(Projected.f[i])
                        \/ ~Contains(JsonTag(T.fields[i]), OmitEmpty) )
                        => k \in DOMAIN last.m
                   /\ ( IsZero(Projected.f[i]) /\ OmitEmpty \in Modifiers(T.fields[i]) )
                        => k \notin DOMAIN last.m

\* ToMap of a pointer to a struct one of whose tagged fields holds a nested
\* struct
C17_NestedStructKept ==
    /\ ProjectsStruct
    /\ last.input.v.t.kind = "ptr"
    /\ \E i \in Shown(Projected.t) :
         /\ Projected.t.fields[i].type.kind = "struct"
         /\ ~IsZero(Projected.f[i])
         /\ KeyOf(Projected.t.fields[i]) # Projected.t.fields[i].name
         /\ last.m[KeyOf(Projected.t.fields[i])] = Projected.f[i]

\* C18: ToMap leaves out an exported field not tagged "-" if and only if
\* omitempty is a modifier of its tag and its value is the zero value of its
\* type.
C18_OmittedIffEmpty ==
    ProjectsStruct =>
        \A i \in Shown(Projected.t) :
            KeyOf(Projected.t.fields[i]) \notin DOMAIN last.m
                <=> ( /\ OmitEmpty \in Modifiers(Projected.t.fields[i])
                      /\ IsZero(Projected.f[i]) )

\* DecodeMap(ToMap(r), &r2) has just run, r2 zero before it, r a struct all
\* of whose fields are exported and none tagged "-"
RoundTrip ==
    /\ last.op = "DecodeMap"
    /\ "from" \in DOMAIN last
    /\ last.pre = Zero(last.pre.t)
    /\ LET r == IF last.from.t.kind = "ptr" THEN last.from.p ELSE last.from
       IN /\ r.t = last.pre.t
          /\ Shown(r.t) = DOMAIN r.t.fields

\* C19: for every such r, DecodeMap(ToMap(r), &r2) returns no error and leaves
\* r2 equal to r on every field of a comparable type.
C19_RoundTrip ==
    RoundTrip =>
        LET r == IF last.from.t.kind = "ptr" THEN last.from.p ELSE last.from
        IN /\ last.err = ErrNone
           /\ \A i \in DOMAIN r.t.fields :
                r.t.fields[i].type.kind \notin {"slice", "map"} => store.f[i] = r.f[i]

\* decoder.Decode(src, &dst) has just run, src a struct or a pointer to one
StructToStruct ==
    /\ last.op = "Decode"
    /\ last.input.form = "other"
    /\ last.out = "ptr"
    /\ IF last.input.v.t.kind = "ptr"
       THEN ~IsNilV(last.input.v) /\ last.input.v.p.t.kind = "struct"
       ELSE last.input.v.t.kind = "struct"

\* The name of a field under a tag namespace
NameUnder(field, ns) ==
    IF PrimaryName(field, ns) # <<>> THEN PrimaryName(field, ns) ELSE field.name

\* C20: Decode of a struct or a pointer to a struct into a pointer to a
\* struct returns nil and gives each field of the destination the value of
\* the field of the source that has its name under the decoder's TagName,
\* whatever the decoder's configuration.
C20_StructToStruct ==
    StructToStruct =>
        LET src == IF last.input.v.t.kind = "ptr" THEN last.input.v.p ELSE last.input.v
            ns == last.dec.TagName
        IN /\ last.err = ErrNone
           /\ \A i \in DOMAIN store.t.fields : \A j \in DOMAIN src.t.fields :
                ( /\ IsExported(store.t.fields[i])
                  /\ IsExported(src.t.fields[j])
                  /\ NameUnder(store.t.fields[i], ns) = NameUnder(src.t.fields[j], ns) )
                => store.f[i] = src.f[j]

\* The fields of the destination to which some key of the map resolves
Resolved ==
    { lookupField(fieldMap(last.dec, last.pre.t), k) : k \in DOMAIN last.input.m } \ {0}

\* C21: with ZeroFields=false, a successful map decode changes only the
\* fields of the destination to which some key of the document resolves;
\* every other field holds what it held before the call.
C21_UnresolvedFieldsKept ==
    ( /\ MapIntoStruct
      /\ ~last.dec.ZeroFields
      /\ last.err = ErrNone )
    => \A i \in DOMAIN store.t.fields :
          i \notin Resolved => store.f[i] = last.pre.f[i]

\* Such a decode has set one field of a destination that held values and
\* left another, which held a value that is not zero, as it was
C21_OneFieldSet ==
    /\ MapIntoStruct
    /\ ~last.dec.ZeroFields
    /\ last.err = ErrNone
    /\ \E i, j \in DOMAIN store.t.fields :
          /\ i \in Resolved /\ store.f[i] # last.pre.f[i]
          /\ j \notin Resolved /\ store.f[j] = last.pre.f[j]
          /\ store.f[j] # Zero(store.t.fields[j].type)

\* The last call decoded the bytes of {"n":"<word>"} into a struct of the one
\* field N
CoercedJSON ==
    /\ last.op = "Decode"
    /\ last.input.form = "bytes"
    /\ last.out = "ptr"
    /\ last.pre.t.kind = "struct"
    /\ last.pre.t.name = "Rec"

\* C22: with WeaklyTyped=false no weak conversion is applied: a string for an
\* integer, unsigned, float, bool, []string or time.Time field makes the
\* decode fail with the conversion error that names the field, for a map as
\* for the bytes of a JSON document.
C22_StrictRejectsStrings ==
    /\ ( /\ Coerced
         /\ ~last.dec.WeaklyTyped
         /\ Source.t = StringT
         /\ TableColumn(Target) \in {"int", "uint", "float", "bool", "[]string", "time.Time"} )
       => last.err = Err("convert", <<<<"N">>>>, <<>>)
    /\ ( /\ CoercedJSON
         /\ ~last.dec.WeaklyTyped
         /\ TableColumn(Target) \in {"int", "uint", "float", "bool", "[]string", "time.Time"} )
       => last.err = Err("convert", <<<<"N">>>>, <<>>)

\* C23: a nil value for a field a key resolves to sets the field to the zero
\* value of its type (nil for a pointer, a slice and a map) and does not
\* fail, under every decoder configuration and whatever the field held.
C23_NilSetsZero ==
    (Coerced /\ Source = NilIface)
    => /\ last.err = ErrNone
       /\ store.f[1] = Zero(Target)

\* A nil decoded, ZeroFields off, into a pointer field that pointed to a
\* value has left it a nil pointer
C23_PointerReset ==
    /\ Coerced
    /\ Source = NilIface
    /\ ~last.dec.ZeroFields
    /\ Target.kind = "ptr"
    /\ ~IsNilV(last.pre.f[1])
    /\ IsNilV(store.f[1])

\* C24: for a pointer field and a source that is not nil, the source (what it
\* points to, if it is a pointer) is converted into a new pointee as it is
\* into a field of the pointee's type, weak conversions included, and the
\* field points to it only if that conversion succeeded: else the error is
\* returned and the field is as it was.  A nil source and a nil pointer
\* leave the field a nil pointer.
C24_PointerField ==
    (Coerced /\ Target.kind = "ptr")
    => IF Source = NilIface \/ (Source.t.kind = "ptr" /\ IsNilV(Source))
       THEN last.err = ErrNone /\ IsNilV(store.f[1])
       ELSE \E r \in setValue(last.dec, Target.elem, Zero(Target.elem),
                              IF Source.t.kind = "ptr" THEN Source.p ELSE Source) :
               IF r.err = ErrNone
               THEN last.err = ErrNone /\ store.f[1] = PtrV(Target, r.val)
               ELSE /\ last.err = Wrap(<<"N">>, r.err)
                    /\ store.f[1] = Before

\* "300" decoded with weak typing, ZeroFields off, into a *int8 field that
\* pointed to 5 has failed and left it pointing to 5
C24_FailedPointee ==
    /\ Coerced
    /\ last.dec.WeaklyTyped /\ ~last.dec.ZeroFields
    /\ Target = PtrT(IntT(8))
    /\ Source = StrV(<<"3", "0", "0">>)
    /\ last.pre.f[1] = PtrV(Target, IntV(IntT(8), 5))
    /\ last.err = Err("convert", <<<<"N">>>>, <<>>)
    /\ store.f[1] = PtrV(Target, IntV(IntT(8), 5))

\* The last call decoded a map into a Level1, and the field to which the one
\* key of the map resolves
NestedCall ==
    /\ last.op = "Decode"
    /\ last.input.form = "map"
    /\ last.out = "ptr"
    /\ last.pre.t = Level1T

OneKey(m) == CHOOSE k \in DOMAIN m : TRUE

\* An inner error as the outer level returns it
Wrapped(name, err) == IF err = ErrNone THEN ErrNone ELSE Wrap(name, err)

\* C25: a map for a struct field is decoded as a map is decoded into a struct
\* of the field's type by the same decoder, at the second level and at the
\* third: the field holds what that decode leaves, and its error (a
\* conversion error, an unknown key) is returned under the names of the
\* fields around it; {"level2": {"level3": {"value": "deep"}}} sets the
\* innermost field.
C25_NestedDecode ==
    NestedCall =>
        LET d == last.dec
            start == IF d.ZeroFields THEN Zero(Level1T) ELSE last.pre
            k1 == OneKey(last.input.m)
            m2 == last.input.m[k1].m
            k2 == OneKey(m2)
            T2 == Level1T.fields[1].type
            T3 == T2.fields[1].type
            at1 == lookupField(fieldMap(d, Level1T), k1) = 1
            at2 == lookupField(fieldMap(d, T2), k2) = 1
        IN /\ at1 =>
                \E r \in decodeMap(d, m2, "ptr", start.f[1]) :
                    /\ last.err = Wrapped(<<"L", "2">>, r.err)
                    /\ store.f[1] = r.val
           /\ (at1 /\ at2) =>
                \E r \in decodeMap(d, m2[k2].m, "ptr", start.f[1].f[1]) :
                    /\ last.err = Wrapped(<<"L", "2">>, Wrapped(<<"L", "3">>, r.err))
                    /\ store.f[1].f[1] = r.val
           /\ ( /\ k1 = <<"l", "e", "v", "e", "l", "2">> /\ k2 = <<"l", "e", "v", "e", "l", "3">>
                /\ d.TagName = "json"
                /\ m2[k2].m = M1(<<"v", "a", "l", "u", "e">>, StrV(<<"d", "e", "e", "p">>)) )
              => last.err = ErrNone /\ store.f[1].f[1].f[1] = StrV(<<"d", "e", "e", "p">>)

\* A decode that rejects unknown keys has met one at the third level, after
\* the value beside it was set, and returned it under the outer names
C25_InnerUnknownKey ==
    /\ NestedCall
    /\ ~last.dec.IgnoreUnknownKeys
    /\ last.err = Err("unknown_field", <<<<"L", "2">>, <<"L", "3">>>>, <<"e", "x", "t", "r", "a">>)
    /\ store.f[1].f[1].f[1] = StrV(<<"d", "e", "e", "p">>)

\* The outcomes of converting element i of the source slice of the last call
ElementOutcomes(i) ==
    setValue(last.dec, Target.elem, Zero(Target.elem), Source.e[i])

\* C26: a slice source decoded into a slice field gives, if every element
\* converts, a slice of the source's length whose element i is the conversion
\* of source element i; else the error of the first element that fails is
\* returned and the field is as it was, no converted prefix stored.
C26_SliceToSlice ==
    (Coerced /\ Target.kind = "slice" /\ Source # NilIface /\ Source.t.kind = "slice")
    => \/ /\ last.err = ErrNone
          /\ store.f[1].t = Target
          /\ Len(store.f[1].e) = Len(Source.e)
          /\ \A i \in 1..Len(Source.e) : R(ErrNone, store.f[1].e[i]) \in ElementOutcomes(i)
       \/ \E i \in 1..Len(Source.e) :
            /\ \A j \in 1..(i - 1) : \E r \in ElementOutcomes(j) : r.err = ErrNone
            /\ \E r \in ElementOutcomes(i) :
                 /\ r.err # ErrNone
                 /\ last.err = Wrap(<<"N">>, r.err)
            /\ store.f[1] = Before

\* ["1", "x"] decoded with weak typing, ZeroFields off, into an []int field
\* that held [1, 2] has failed at its second element and left [1, 2]
C26_FailedElement ==
    /\ Coerced
    /\ last.dec.WeaklyTyped /\ ~last.dec.ZeroFields
    /\ Target = SliceT(GoInt)
    /\ Source = GSlice(<<StrV(<<"1">>), StrV(<<"x">>)>>)
    /\ last.pre.f[1] = SliceV(Target, <<IntV(GoInt, 1), IntV(GoInt, 2)>>)
    /\ last.err = Err("convert", <<<<"N">>>>, <<>>)
    /\ store.f[1] = last.pre.f[1]

\* The last call was Decode of bytes or of a string; the steps it took, in
\* order; its input with the white space around it removed
DecodedText == last.op = "Decode" /\ last.input.form \in {"bytes", "string"}

Steps == [i \in DOMAIN last.trace |-> last.trace[i].step]

Lead == TrimSpace(last.input.text.bytes)

PlainStart == Len(Lead) > 0 /\ Lead[1] \notin {"{", "["}

\* The steps after the YAML parse, if that was tried
JSONSteps == IF PlainStart THEN Tail(last.trace) ELSE last.trace

LoopStart == IF last.dec.ZeroFields THEN Zero(last.pre.t) ELSE last.pre

\* The keys of the last call's document that resolve to field i, a field that
\* can be set; the keys that resolve to no field
KeysOf(i) ==
    { k \in DOMAIN last.input.m :
        /\ lookupField(fieldMap(last.dec, last.pre.t), k) = i
        /\ IsExported(last.pre.t.fields[i]) }

UnknownKeys ==
    { k \in DOMAIN last.input.m : lookupField(fieldMap(last.dec, last.pre.t), k) = 0 }

\* The outcomes of converting the value of key k into field i
FieldOutcomes(i, k) ==
    setValue(last.dec, last.pre.t.fields[i].type, LoopStart.f[i], last.input.m[k])

\* C29: when a map decode into a struct returns its unknown-key error, every
\* key of the document that resolves to a field has been converted and its
\* field holds the result; and for a document with a key that resolves to no
\* field and a value that does not convert, a decoder that rejects unknown
\* keys returns the conversion error, whichever key is met first.
C29_UnknownKeyAfterLoop ==
    MapIntoStruct =>
        /\ (last.err.kind = "unknown_field" /\ last.err.path = <<>>) =>
             /\ last.err.key \in UnknownKeys
             /\ \A i \in DOMAIN last.pre.t.fields :
                  /\ \A k \in KeysOf(i) : \E r \in FieldOutcomes(i, k) : r.err = ErrNone
                  /\ KeysOf(i) # {} =>
                       \E k \in KeysOf(i) : R(ErrNone, store.f[i]) \in FieldOutcomes(i, k)
        /\ ( /\ ~last.dec.IgnoreUnknownKeys
             /\ UnknownKeys # {}
             /\ \E i \in DOMAIN last.pre.t.fields : \E k \in KeysOf(i) :
                  \A r \in FieldOutcomes(i, k) : r.err # ErrNone )
           => \E i \in DOMAIN last.pre.t.fields : \E k \in KeysOf(i) :
                \E r \in FieldOutcomes(i, k) :
                    /\ r.err # ErrNone
                    /\ last.err = Wrap(last.pre.t.fields[i].name, r.err)

\* {"id": "x", "extra": 2.0} decoded by a decoder that rejects unknown keys
\* has returned the error of converting "x", not the unknown-key error
C29_ConversionErrorWins ==
    /\ MapIntoStruct
    /\ ~last.dec.IgnoreUnknownKeys
    /\ last.input.m = M2(<<"i", "d">>, StrV(<<"x">>), <<"e", "x", "t", "r", "a">>, FloatV(20))
    /\ last.err = Err("convert", <<<<"I", "D">>>>, <<>>)

\* C30: a number decoded with weak typing into a string field, a Go int as
\* well as a float64, leaves its decimal text there: 65 gives "65", never the
\* one-character string whose code point is 65.
C30_NumberAsDecimalText ==
    ( /\ Coerced
      /\ last.dec.WeaklyTyped
      /\ Target = StringT
      /\ Source # NilIface
      /\ Source.t.kind \in {"int", "uint", "float"} )
    => /\ last.err = ErrNone
       /\ store.f[1] = StrV(FormatFloat(IF Source.t.kind = "float"
                                        THEN Source.f ELSE Source.i * 10))

\* What the call of goroutine t gives when it runs alone
Alone(t) ==
    decodeMap(decoderOf(tasks[t].via, tasks[t].shared), tasks[t].m, "ptr", tasks[t].pre)

\* C28: of two decodes that run at the same time with one decoder, or through
\* the package function, each into its own destination, every one ends, in
\* every interleaving, with an error and a destination that the same call
\* gives when it runs alone; a destination whose decode has not begun holds
\* what it held, and the decoder is at every step as it was built.
C28_NoInterference ==
    \A t \in DOMAIN tasks :
        /\ dec = tasks[t].shared
        /\ tasks[t].pc = "idle" => tasks[t].dst = tasks[t].pre
        /\ tasks[t].pc = "done" => R(tasks[t].err, tasks[t].dst) \in Alone(t)

\* Two decodes through the shared decoder have ended, each having begun
\* before the other ended, one with a conversion error and one with none
C28_Overlapped ==
    /\ DOMAIN tasks = Tasks
    /\ \A t \in Tasks : tasks[t].pc = "done" /\ tasks[t].via = "Decode"
    /\ tasks[1].began < tasks[2].ended /\ tasks[2].began < tasks[1].ended
    /\ tasks[1].err.kind = "convert"
    /\ tasks[2].err = ErrNone
    /\ tasks[2].dst # tasks[2].pre

====
